---------------------------- MODULE Spec2Model ----------------------------
(***************************************************************************)
(* EventStateMachine: the state/timeout/callback engine of                 *)
(* src/src/EventStateMachine.cpp with the multi-platform header            *)
(* src/unnamed/part_003 (EventStateMachine.h).                             *)
(*                                                                         *)
(* The three builds of the header are one model: platform is chosen at     *)
(* construction and never changes.                                         *)
(*   "ESP"     Ticker (asynchronous fire), std::vector containers          *)
(*   "RP2040"  polling TimerImplementation, std::vector containers         *)
(*   "AVR"     polling TimerImplementation, SimpleArray<T, 8> containers   *)
(*                                                                         *)
(* setState and update are executed in steps on an explicit call stack,    *)
(* one step per callback invocation, so that a callback can call setState  *)
(* again while the outer call is suspended, and so that a Ticker can fire  *)
(* between two steps of the main thread.                                   *)
(***************************************************************************)
EXTENDS Integers, Sequences, FiniteSets, TLC

\* ------------------------------------------------------------ bounds
\* numberOfStates handed to the constructor.
NumStates == 3
\* Distinct application functions used as callbacks: 1..NumCb; 0 is nullptr.
NumCb == 2
\* Timeout durations handed to addTimeout/configureState: 0..MaxDur.
MaxDur == 1
\* Entries registered in total while the engine runs (Spec).
MaxRegs == 2
\* Entries one list may hold in the registry-only specifications.
MaxLen == 3
\* Entries one list may grow to in SpecReg when it is filled to capacity.
MaxVecLen == 9
\* Clock ticks of one behaviour.
MaxTicks == 1
\* setState calls made from inside callbacks during one top-level call.
MaxReentry == 1
\* Records in the log file of the StateRecovery sketch.
MaxRecords == 2
\* Nested calls the stack of the board has room for.
MaxDepth == 3

\* ------------------------------------------------- program constants
\* SimpleArray<T, MAX_SIZE = 8>
MAX_SIZE == 8
\* millis(), startTime and stateEnteredTime are unsigned long: differences are
\* taken modulo the word size.  The word is modelled 16 bits wide, TLC's own
\* integers ending at 2^31 - 1; nothing in the engine depends on the width.
ClockModulus == 65536
\* uint8_t state ids and timeout indices.
Uint8Modulus == 256

NULL == 0
Cbs == 1 .. NumCb
CbArgs == 0 .. NumCb
States == 0 .. (NumStates - 1)
\* State ids handed to the API: the valid ones and one that is out of range.
StateArgs == 0 .. NumStates
Durations == 0 .. MaxDur
Platforms == {"ESP", "RP2040", "AVR"}

VARIABLES
  platform,          \* the build: which #if branches are compiled
  currentState,      \* uint8_t currentState
  previousState,     \* uint8_t previousState
  stateChanged,      \* bool stateChanged
  stateEnteredTime,  \* unsigned long stateEnteredTime
  states,            \* StateDefinition* states: one record per state id
  beforeHandlers,    \* beforeStateChangeHandlers
  afterHandlers,     \* afterStateChangeHandlers
  now,               \* millis()
  stack,             \* frames of suspended setState/update calls, top last
  log,               \* callbacks invoked since the last top-level call began
  call,              \* the last top-level call: operation and arguments
  ret,               \* what the last bool-returning call returned
  nreent,            \* setState calls made by callbacks in this top-level call
  numStates,         \* uint8_t numStates
  eager,             \* every callback of the sketch calls setState when invoked
  flash,             \* the StateRecovery sketch: its log file and what it recovered
  alive,             \* the object exists: constructed and not yet destroyed
  instance,          \* static EventStateMachine* instance: "this" or "other"
  looseTickers,      \* armed Tickers that no TimeoutInfo of this machine holds
  fault              \* the program has read storage that does not exist

vars == <<platform, currentState, previousState, stateChanged, stateEnteredTime,
          states, beforeHandlers, afterHandlers, now, stack, log, call,
          ret, nreent, numStates, eager, flash, alive, instance, looseTickers, fault>>

machine == <<currentState, previousState, stateChanged, stateEnteredTime>>
registry == <<states, beforeHandlers, afterHandlers>>
\* What only construction, destruction, other machines and stray reads change.
world == <<numStates, eager, flash, alive, instance, looseTickers, fault>>

\* ------------------------------------------------------ build selection
\* #if defined(ESP8266) || defined(ESP32): Ticker, fired asynchronously.
IsESP == platform = "ESP"
\* CallbackContainer is SimpleArray on every other board than ESP and RP2040.
IsBounded == platform = "AVR"

\* ------------------------------------------------------------ containers
\* SimpleArray::push_back / std::vector::push_back: the container afterwards.
PushBack(c, item) ==
  IF IsBounded /\ ~(Len(c) < MAX_SIZE) THEN c ELSE Append(c, item)

\* A faulty erase that drops everything from position i on.
EraseTail(c, i) == SubSeq(c, 1, i)

\* SimpleArray::erase(&c[i]) / std::vector::erase(begin() + i), i 0-based.
Erase(c, i) ==
  IF i < Len(c) THEN SubSeq(c, 1, i) \o SubSeq(c, i + 2, Len(c)) ELSE c

\* The for-loops of the remove* methods: the first index (0-based) whose entry
\* passes the test, or Len(c) when the loop runs to its end.
RECURSIVE ScanFrom(_, _, _)
ScanFrom(c, hit, i) ==
  IF i >= Len(c) THEN Len(c)
  ELSE IF hit[i + 1] THEN i
  ELSE ScanFrom(c, hit, i + 1)

FindCallback(c, cb) == ScanFrom(c, [k \in 1 .. Len(c) |-> c[k] = cb], 0)

FindDuration(c, d) == ScanFrom(c, [k \in 1 .. Len(c) |-> c[k].duration = d], 0)

\* --------------------------------------------------------------- timers
\* TimerImplementation() : active(false), callback(nullptr) {}; a Ticker that
\* was never armed.  startTime and duration are read only while active.
\* hasCb: the callback pointer handed to once_ms is not null.  st, idx: what
\* the lambda handed to Ticker::once_ms has captured.
\* left (history): the machine has left the state since this arming.
NewTimer ==
  [active |-> FALSE, startTime |-> 0, duration |-> 0, hasCb |-> FALSE,
   st |-> 0, idx |-> 0, left |-> FALSE]

\* once_ms(ms, func)
OnceMs(t, ms, cbSet, s, k) ==
  [active |-> TRUE, startTime |-> now, duration |-> ms, hasCb |-> cbSet,
   st |-> s, idx |-> k, left |-> FALSE]

\* A faulty detach() that leaves the timer counting.
DetachForgotten(t) == t

\* detach()
Detach(t) == [t EXCEPT !.active = FALSE]

\* millis() - startTime, in unsigned long arithmetic.
Elapsed(t) == (now - t.startTime) % ClockModulus

\* ------------------------------------------------------------- validity
\* A faulty range test that lets the id numStates through.
IsValidStateInclusive(s) == s <= numStates

\* bool isValidState(state), lines 34-36.
IsValidState(s) == s < numStates

EmptyState == [timeouts |-> <<>>, onEnters |-> <<>>, onStates |-> <<>>, onExits |-> <<>>]

\* The last top-level call: its name and, for setState, its argument and the
\* current state it was made in.
NoCall == [op |-> "none", s |-> 0, from |-> 0]
Call(op) == [op |-> op, s |-> 0, from |-> 0]

\* EventStateMachine::EventStateMachine(numberOfStates)
\* millis() when the machine is constructed: one tick before the clock wraps,
\* so that every behaviour with a tick crosses the wrap-around.
BootTime == ClockModulus - 1

\* The object as the constructor leaves it, n the argument numberOfStates:
\* new StateDefinition[n] holds the records 0 .. n - 1, and setInstance()
\* makes this object the target of every Ticker callback.
\* ------------------------------------------------- the StateRecovery sketch
\* Characters of the log file /state_log.txt.
Comma == ","
CR == "CR"
LF == "LF"
DigitChars == <<"0", "1", "2", "3", "4", "5", "6", "7", "8", "9">>

\* Print::print of an unsigned number: its decimal digits.
RECURSIVE PrintNumber(_)
PrintNumber(n) ==
  IF n < 10 THEN <<DigitChars[n + 1]>>
  ELSE PrintNumber(n \div 10) \o <<DigitChars[(n % 10) + 1]>>

\* Print::println: the text, then "\r\n".
PrintLn(text) == text \o <<CR, LF>>

\* What saveStateTransition writes: timestamp,fromState,toState and a line end.
RecordText(ts, fromState, toState) ==
  PrintNumber(ts) \o <<Comma>> \o PrintNumber(fromState) \o <<Comma>>
    \o PrintLn(PrintNumber(toState))

\* Stream::readStringUntil('\n') from position p (0-based) of the file: the
\* characters up to the next line feed, which is consumed, or to the end.
RECURSIVE ReadStringUntilLF(_, _)
ReadStringUntilLF(bytes, p) ==
  IF p >= Len(bytes) THEN [line |-> <<>>, next |-> p]
  ELSE IF bytes[p + 1] = LF THEN [line |-> <<>>, next |-> p + 1]
  ELSE LET rest == ReadStringUntilLF(bytes, p + 1)
       IN [line |-> <<bytes[p + 1]>> \o rest.line, next |-> rest.next]

\* The loop 'while (stateLog.available())' of recoverLastStateFromFlash: the
\* last line of non-zero length, lastLine being the one found so far.
RECURSIVE LastLineFrom(_, _, _)
LastLineFrom(bytes, p, lastLine) ==
  IF p >= Len(bytes) THEN lastLine
  ELSE LET r == ReadStringUntilLF(bytes, p)
       IN LastLineFrom(bytes, r.next, IF Len(r.line) > 0 THEN r.line ELSE lastLine)

\* String::indexOf / String::lastIndexOf: 0-based position, -1 when absent.
IndexOf(text, ch) ==
  IF \E k \in 1 .. Len(text) : text[k] = ch
  THEN (CHOOSE k \in 1 .. Len(text) :
          text[k] = ch /\ \A j \in 1 .. (k - 1) : text[j] # ch) - 1
  ELSE -1

LastIndexOf(text, ch) ==
  IF \E k \in 1 .. Len(text) : text[k] = ch
  THEN (CHOOSE k \in 1 .. Len(text) :
          text[k] = ch /\ \A j \in (k + 1) .. Len(text) : text[j] # ch) - 1
  ELSE -1

\* String::substring(from): the text from 0-based position from on.
Substring(text, from) == SubSeq(text, from + 1, Len(text))

IsDigit(ch) == \E d \in 1 .. 10 : DigitChars[d] = ch

DigitValue(ch) == (CHOOSE d \in 1 .. 10 : DigitChars[d] = ch) - 1

\* String::toInt (atol): the value of the leading digits, 0 when there are
\* none; acc is the value read so far.
RECURSIVE ToIntFrom(_, _, _)
ToIntFrom(text, k, acc) ==
  IF k > Len(text) \/ ~IsDigit(text[k]) THEN acc
  ELSE ToIntFrom(text, k + 1, acc * 10 + DigitValue(text[k]))

ToInt(text) == ToIntFrom(text, 1, 0)

\* recoverLastStateFromFlash on a file that exists or not.
RecoverLastStateFromFlash(exists, bytes, lastState) ==
  IF ~exists THEN [ok |-> FALSE, lastState |-> lastState]
  ELSE LET lastLine == LastLineFrom(bytes, 0, <<>>)
           lastComma == LastIndexOf(lastLine, Comma)
       IN IF Len(lastLine) > 0 /\ lastComma > 0
          THEN [ok |-> TRUE,
                lastState |-> ToInt(Substring(lastLine, lastComma + 1)) % Uint8Modulus]
          ELSE [ok |-> FALSE, lastState |-> lastState]

\* saveStateTransition(fromState, toState) at clock value ts: the file is
\* opened in append mode, which creates it, and the record is written.
\* records (history): the records appended since the file was last missing.
SaveStateTransitionAt(f, ts, fromState, toState) ==
  [f EXCEPT !.exists = TRUE,
            !.bytes = @ \o RecordText(ts, fromState, toState),
            !.records = Append(@, [ts |-> ts, fromState |-> fromState,
                                   toState |-> toState])]

\* No storage: every sketch but StateRecovery.
NoStorage ==
  [mounted |-> FALSE, exists |-> FALSE, bytes |-> <<>>, records |-> <<>>,
   ok |-> FALSE, lastState |-> 0]

Built(builds, n) ==
  /\ platform \in builds
  /\ numStates = n
  /\ alive = TRUE
  /\ instance = "this"
  /\ looseTickers = {}
  /\ fault = FALSE
  /\ currentState = 0
  /\ previousState = 0
  /\ stateChanged = TRUE
  /\ now = BootTime
  /\ stateEnteredTime = now
  /\ states = [s \in 0 .. (n - 1) |-> EmptyState]
  /\ beforeHandlers = <<>>
  /\ afterHandlers = <<>>
  /\ stack = <<>>
  /\ log = <<>>
  /\ call = NoCall
  /\ ret = FALSE
  /\ nreent = 0

\* The object in a sketch whose callbacks call setState at most MaxReentry
\* times during one top-level call.
Constructed(builds, n) == Built(builds, n) /\ eager = FALSE /\ flash = NoStorage

\* A machine of NumStates states, the only one on the board.
InitOn(builds) == Constructed(builds, NumStates)

Idle == stack = <<>>


\* --------------------------------------------------------------- registry
\* The add*, remove* and configureState methods run to their end without
\* invoking anything, so each is one step.  They are called from the main
\* thread between two calls of setState/update.

\* What every registry call leaves alone.
RegistryFrame ==
  /\ log' = <<>>
  /\ nreent' = 0
  /\ UNCHANGED <<platform, currentState, previousState, stateChanged,
                 stateEnteredTime, now, stack>>
  /\ UNCHANGED <<numStates, eager, flash, alive, instance, fault>>

\* TimeoutInfo as addTimeout fills it in.  The stateIndex and timeoutIndex
\* fields of the non-ESP builds are written here and in setState and read
\* nowhere: the model leaves them out.
NewTimeout(s, d, cb) ==
  [duration |-> d, callback |-> cb, timer |-> NewTimer, active |-> FALSE]

\* The bodies of the four add methods: the state array and the returned bool.
AddTimeoutBody(st, s, d, cb) ==
  IF ~IsValidState(s) \/ cb = NULL
  THEN [states |-> st, ret |-> FALSE]
  ELSE [states |-> [st EXCEPT ![s].timeouts = PushBack(@, NewTimeout(s, d, cb))],
        ret |-> TRUE]

\* A faulty addOnEnter that accepts a null callback.
AddOnEnterNoNullCheck(st, s, cb) ==
  IF ~IsValidState(s)
  THEN [states |-> st, ret |-> FALSE]
  ELSE [states |-> [st EXCEPT ![s].onEnters = PushBack(@, cb)], ret |-> TRUE]

\* bool addOnEnter(state, callback), lines 106-111.
AddOnEnterBody(st, s, cb) ==
  IF ~IsValidState(s) \/ cb = NULL
  THEN [states |-> st, ret |-> FALSE]
  ELSE [states |-> [st EXCEPT ![s].onEnters = PushBack(@, cb)], ret |-> TRUE]

AddOnStateBody(st, s, cb) ==
  IF ~IsValidState(s) \/ cb = NULL
  THEN [states |-> st, ret |-> FALSE]
  ELSE [states |-> [st EXCEPT ![s].onStates = PushBack(@, cb)], ret |-> TRUE]

\* A faulty addOnExit that also registers the callback as an onEnter callback.
AddOnExitIntoBothLists(st, s, cb) ==
  IF ~IsValidState(s) \/ cb = NULL
  THEN [states |-> st, ret |-> FALSE]
  ELSE [states |-> [st EXCEPT ![s].onExits = PushBack(@, cb),
                              ![s].onEnters = PushBack(@, cb)], ret |-> TRUE]

AddOnExitBody(st, s, cb) ==
  IF ~IsValidState(s) \/ cb = NULL
  THEN [states |-> st, ret |-> FALSE]
  ELSE [states |-> [st EXCEPT ![s].onExits = PushBack(@, cb)], ret |-> TRUE]

\* bool addTimeout(state, timeout, onTimeout)
AddTimeout(s, d, cb) ==
  /\ Idle
  /\ states' = AddTimeoutBody(states, s, d, cb).states
  /\ ret' = AddTimeoutBody(states, s, d, cb).ret
  /\ call' = Call("addTimeout")
  /\ UNCHANGED <<beforeHandlers, afterHandlers, looseTickers>>
  /\ RegistryFrame

\* bool addOnEnter(state, onEnter)
AddOnEnter(s, cb) ==
  /\ Idle
  /\ states' = AddOnEnterBody(states, s, cb).states
  /\ ret' = AddOnEnterBody(states, s, cb).ret
  /\ call' = Call("addOnEnter")
  /\ UNCHANGED <<beforeHandlers, afterHandlers, looseTickers>>
  /\ RegistryFrame

\* bool addOnState(state, onState)
AddOnState(s, cb) ==
  /\ Idle
  /\ states' = AddOnStateBody(states, s, cb).states
  /\ ret' = AddOnStateBody(states, s, cb).ret
  /\ call' = Call("addOnState")
  /\ UNCHANGED <<beforeHandlers, afterHandlers, looseTickers>>
  /\ RegistryFrame

\* bool addOnExit(state, onExit)
AddOnExit(s, cb) ==
  /\ Idle
  /\ states' = AddOnExitBody(states, s, cb).states
  /\ ret' = AddOnExitBody(states, s, cb).ret
  /\ call' = Call("addOnExit")
  /\ UNCHANGED <<beforeHandlers, afterHandlers, looseTickers>>
  /\ RegistryFrame

\* A faulty removeTimeout that stops the timers it passes while it searches,
\* and so has stopped them all when it finds no entry.
RemoveTimeoutStopsAsItSearches(st, s, d) ==
  IF ~IsValidState(s)
  THEN [states |-> st, ret |-> FALSE, was |-> NewTimer, gone |-> NewTimer]
  ELSE LET i == FindDuration(st[s].timeouts, d) IN
       IF i < Len(st[s].timeouts)
       THEN [states |-> [st EXCEPT ![s].timeouts = Erase(@, i)], ret |-> TRUE,
             was |-> st[s].timeouts[i + 1].timer,
             gone |-> Detach(st[s].timeouts[i + 1].timer)]
       ELSE [states |-> [st EXCEPT ![s].timeouts =
                           [k \in 1 .. Len(st[s].timeouts) |->
                              [st[s].timeouts[k] EXCEPT
                                 !.active = FALSE,
                                 !.timer = Detach(st[s].timeouts[k].timer)]]],
             ret |-> FALSE, was |-> NewTimer, gone |-> NewTimer]

\* The bodies of the four remove methods.
\* removeTimeout, lines 133-134 and 136-141: the entry found is detached, then
\* erased.  was, gone: the timer of the erased entry before and after the
\* detach.
RemoveTimeoutBody(st, s, d) ==
  IF ~IsValidState(s)
  THEN [states |-> st, ret |-> FALSE, was |-> NewTimer, gone |-> NewTimer]
  ELSE LET i == FindDuration(st[s].timeouts, d) IN
       IF i < Len(st[s].timeouts)
       THEN [states |-> [st EXCEPT ![s].timeouts = Erase(@, i)], ret |-> TRUE,
             was |-> st[s].timeouts[i + 1].timer,
             gone |-> Detach(st[s].timeouts[i + 1].timer)]
       ELSE [states |-> st, ret |-> FALSE, was |-> NewTimer, gone |-> NewTimer]

\* A Ticker is a timer of the SDK: erasing the TimeoutInfo that holds it does
\* not stop it.  The Ticker of an erased entry that was counting when the
\* entry was found: armed still with the lambda it was given, or detached,
\* its lambda dropped.
ErasedTicker(was, gone) ==
  IF IsESP /\ was.active
  THEN IF gone.active
       THEN {[owner |-> "erased", st |-> was.st, idx |-> was.idx, active |-> TRUE]}
       ELSE {[owner |-> "erased", st |-> 0, idx |-> 0, active |-> FALSE]}
  ELSE {}

RemoveOnEnterBody(st, s, cb) ==
  IF ~IsValidState(s) THEN [states |-> st, ret |-> FALSE]
  ELSE LET i == FindCallback(st[s].onEnters, cb) IN
       IF i < Len(st[s].onEnters)
       THEN [states |-> [st EXCEPT ![s].onEnters = Erase(@, i)], ret |-> TRUE]
       ELSE [states |-> st, ret |-> FALSE]

RemoveOnStateBody(st, s, cb) ==
  IF ~IsValidState(s) THEN [states |-> st, ret |-> FALSE]
  ELSE LET i == FindCallback(st[s].onStates, cb) IN
       IF i < Len(st[s].onStates)
       THEN [states |-> [st EXCEPT ![s].onStates = Erase(@, i)], ret |-> TRUE]
       ELSE [states |-> st, ret |-> FALSE]

RemoveOnExitBody(st, s, cb) ==
  IF ~IsValidState(s) THEN [states |-> st, ret |-> FALSE]
  ELSE LET i == FindCallback(st[s].onExits, cb) IN
       IF i < Len(st[s].onExits)
       THEN [states |-> [st EXCEPT ![s].onExits = Erase(@, i)], ret |-> TRUE]
       ELSE [states |-> st, ret |-> FALSE]

\* bool removeTimeout(state, timeout)
RemoveTimeout(s, d) ==
  /\ Idle
  /\ states' = RemoveTimeoutBody(states, s, d).states
  /\ ret' = RemoveTimeoutBody(states, s, d).ret
  /\ call' = Call("removeTimeout")
  /\ looseTickers' = looseTickers \cup ErasedTicker(RemoveTimeoutBody(states, s, d).was,
                                                   RemoveTimeoutBody(states, s, d).gone)
  /\ UNCHANGED <<beforeHandlers, afterHandlers>>
  /\ RegistryFrame

\* bool removeOnEnter(state, onEnter)
RemoveOnEnter(s, cb) ==
  /\ Idle
  /\ states' = RemoveOnEnterBody(states, s, cb).states
  /\ ret' = RemoveOnEnterBody(states, s, cb).ret
  /\ call' = Call("removeOnEnter")
  /\ UNCHANGED <<beforeHandlers, afterHandlers, looseTickers>>
  /\ RegistryFrame

\* bool removeOnState(state, onState)
RemoveOnState(s, cb) ==
  /\ Idle
  /\ states' = RemoveOnStateBody(states, s, cb).states
  /\ ret' = RemoveOnStateBody(states, s, cb).ret
  /\ call' = Call("removeOnState")
  /\ UNCHANGED <<beforeHandlers, afterHandlers, looseTickers>>
  /\ RegistryFrame

\* bool removeOnExit(state, onExit)
RemoveOnExit(s, cb) ==
  /\ Idle
  /\ states' = RemoveOnExitBody(states, s, cb).states
  /\ ret' = RemoveOnExitBody(states, s, cb).ret
  /\ call' = Call("removeOnExit")
  /\ UNCHANGED <<beforeHandlers, afterHandlers, looseTickers>>
  /\ RegistryFrame

\* A faulty test that hands a timeout of 0 ms on to addTimeout.
TimeoutWantedAnyDuration(t, onTimeout) == onTimeout # NULL

\* configureState, line 83: timeout > 0 && onTimeout != nullptr
TimeoutWanted(t, onTimeout) == t > 0 /\ onTimeout # NULL

\* configureState, lines 68-85, on the state array st: the early return, then
\* one guarded call after the other, each on what the one before left.
ConfigureStateBody(st, s, t, onEnter, onState, onExit, onTimeout) ==
  IF ~IsValidState(s) THEN st
  ELSE LET st1 == IF onEnter # NULL THEN AddOnEnterBody(st, s, onEnter).states ELSE st
           st2 == IF onState # NULL THEN AddOnStateBody(st1, s, onState).states ELSE st1
           st3 == IF onExit # NULL THEN AddOnExitBody(st2, s, onExit).states ELSE st2
       IN IF TimeoutWanted(t, onTimeout)
          THEN AddTimeoutBody(st3, s, t, onTimeout).states
          ELSE st3

\* void configureState(state, timeout, onEnter, onState, onExit, onTimeout)
ConfigureState(s, t, onEnter, onState, onExit, onTimeout) ==
  /\ Idle
  /\ states' = ConfigureStateBody(states, s, t, onEnter, onState, onExit, onTimeout)
  /\ call' = [Call("configureState") EXCEPT !.s = s]
  /\ UNCHANGED <<beforeHandlers, afterHandlers, ret, looseTickers>>
  /\ RegistryFrame

\* void addBeforeStateChangeHandler(handler)
AddBeforeStateChangeHandler(h) ==
  /\ Idle
  /\ beforeHandlers' = IF h # NULL THEN PushBack(beforeHandlers, h) ELSE beforeHandlers
  /\ call' = Call("addBefore")
  /\ UNCHANGED <<states, afterHandlers, ret, looseTickers>>
  /\ RegistryFrame

\* void addAfterStateChangeHandler(handler)
AddAfterStateChangeHandler(h) ==
  /\ Idle
  /\ afterHandlers' = IF h # NULL THEN PushBack(afterHandlers, h) ELSE afterHandlers
  /\ call' = Call("addAfter")
  /\ UNCHANGED <<states, beforeHandlers, ret, looseTickers>>
  /\ RegistryFrame

\* removeBeforeStateChangeHandler / removeAfterStateChangeHandler: the scan
\* stops at the first handler equal to the argument and erases it.
RemoveHandlerEveryMatch(c, h) ==
  [list |-> SelectSeq(c, LAMBDA x : x # h), ret |-> \E k \in 1 .. Len(c) : c[k] = h]

RemoveHandlerBody(c, h) ==
  LET i == FindCallback(c, h) IN
    IF i < Len(c) THEN [list |-> Erase(c, i), ret |-> TRUE]
    ELSE [list |-> c, ret |-> FALSE]

RemoveBeforeStateChangeHandler(h) ==
  /\ Idle
  /\ beforeHandlers' = RemoveHandlerBody(beforeHandlers, h).list
  /\ ret' = RemoveHandlerBody(beforeHandlers, h).ret
  /\ call' = Call("removeBefore")
  /\ UNCHANGED <<states, afterHandlers, looseTickers>>
  /\ RegistryFrame

RemoveAfterStateChangeHandler(h) ==
  /\ Idle
  /\ afterHandlers' = RemoveHandlerBody(afterHandlers, h).list
  /\ ret' = RemoveHandlerBody(afterHandlers, h).ret
  /\ call' = Call("removeAfter")
  /\ UNCHANGED <<states, beforeHandlers, looseTickers>>
  /\ RegistryFrame

\* Entries held by the lists of state s.
EntriesOf(s) ==
  Len(states[s].timeouts) + Len(states[s].onEnters)
    + Len(states[s].onStates) + Len(states[s].onExits)

RECURSIVE EntriesUpTo(_)
EntriesUpTo(s) == IF s < 0 THEN 0 ELSE EntriesOf(s) + EntriesUpTo(s - 1)

\* Entries held by all the lists of the machine.
TotalEntries == EntriesUpTo(numStates - 1) + Len(beforeHandlers) + Len(afterHandlers)


\* ----------------------------------------------------------------- engine
\* A suspended or running call.  fn: the method; pc: the loop it is in; i: the
\* loop variable; ns: setState's argument; isr: the call was made from a Ticker
\* callback.
Frame(fn, pc, i, ns, isr) == [fn |-> fn, pc |-> pc, i |-> i, ns |-> ns, isr |-> isr]

Top == stack[Len(stack)]
Popped == SubSeq(stack, 1, Len(stack) - 1)
WithTop(f) == [stack EXCEPT ![Len(stack)] = f]
InIsr == \E k \in 1 .. Len(stack) : stack[k].isr

\* One invocation of an application callback, as the log keeps it.  o: the
\* state whose list holds the callback (-1: a global handler list); a, b: the
\* arguments; stale: a timeout callback run by an arming made before the
\* machine last left the state.
Invocation(k, o, cb, a, b, stale) ==
  [k |-> k, o |-> o, cb |-> cb, a |-> a, b |-> b, stale |-> stale]

\* The application callback runs: it returns, or it calls setState(t) once and
\* returns when that call has returned.  (A call with t out of range or equal
\* to currentState returns at once and is the first case.)  stk is the stack of
\* the caller, already advanced past the invocation.
\* A Ticker that fires while the main thread is between two calls starts a
\* log of its own.
LogSoFar == IF Idle THEN <<>> ELSE log
ReentriesSoFar == IF Idle THEN 0 ELSE nreent

\* In the sketch of SpecDeep every callback is
\*   stateMachine.setState((stateMachine.getCurrentState() + 1) % NumStates);
\* a call nested deeper than the stack has room for never returns.
CallbackRuns(inv, stk, isr) ==
  /\ log' = Append(LogSoFar, inv)
  /\ \/ /\ ~eager
        /\ stack' = stk
        /\ nreent' = ReentriesSoFar
     \/ /\ ~eager
        /\ ReentriesSoFar < MaxReentry
        /\ nreent' = ReentriesSoFar + 1
        /\ \E t \in States :
             /\ t # currentState
             /\ stack' = Append(stk, Frame("setState", "before", 0, t, isr))
     \/ /\ eager
        /\ nreent' = 1
        /\ stack' = Append(stk, Frame("setState",
                                      IF Len(stk) < MaxDepth THEN "before" ELSE "lost",
                                      0, (currentState + 1) % NumStates, isr))

\* setState, lines 255-259: detach every timer of state s.
CancelTimers(st, s) ==
  [st EXCEPT ![s].timeouts =
     [k \in 1 .. Len(st[s].timeouts) |->
        [st[s].timeouts[k] EXCEPT !.timer = Detach(st[s].timeouts[k].timer),
                                  !.active = FALSE]]]

\* setState, lines 276-319: arm every timeout of state s.  On ESP the Ticker
\* gets the lambda [state = currentState, index = i]; on the other builds
\* once_ms gets nullptr.
ArmTimers(st, s) ==
  [st EXCEPT ![s].timeouts =
     [k \in 1 .. Len(st[s].timeouts) |->
        [st[s].timeouts[k] EXCEPT
           !.active = TRUE,
           !.timer = OnceMs(st[s].timeouts[k].timer, st[s].timeouts[k].duration,
                            IsESP, s, k - 1)]]]

\* History: the machine goes from state s to state n; if that leaves s, every
\* timer armed for s that is still counting has outlived the stay it was armed
\* for.
MarkLeft(st, s, n) ==
  IF n = s THEN st ELSE
  [x \in DOMAIN st |->
     [st[x] EXCEPT !.timeouts =
        [k \in 1 .. Len(st[x].timeouts) |->
           IF st[x].timeouts[k].timer.active /\ st[x].timeouts[k].timer.st = s
           THEN [st[x].timeouts[k] EXCEPT !.timer.left = TRUE]
           ELSE st[x].timeouts[k]]]]

\* Faulty guards: one without the same-state test, one without the range test.
SetStateProceedsAlways(n) == IsValidState(n)
SetStateProceedsUnchecked(n) == n # currentState

\* The guards of setState, lines 245 and 248: the call goes on to a transition.
SetStateProceeds(n) == IsValidState(n) /\ n # currentState

\* void setState(newState), called from the main thread.
SetState(n) ==
  /\ Idle
  /\ call' = [op |-> "setState", s |-> n, from |-> currentState]
  /\ log' = <<>>
  /\ nreent' = 0
  /\ stack' = IF SetStateProceeds(n)
              THEN <<Frame("setState", "before", 0, n, FALSE)>>
              ELSE <<>>
  /\ UNCHANGED <<world, platform, machine, registry, now, ret>>

\* setState, lines 250-259: the before-change handlers, then the cancelling
\* of the current state's timers.
SaveStateTransition(f, fromState, toState) ==
  SaveStateTransitionAt(f, now, fromState, toState)

SetStateBefore ==
  /\ ~Idle
  /\ Top.fn = "setState"
  /\ Top.pc = "before"
  /\ IF Top.i < Len(beforeHandlers)
     THEN /\ CallbackRuns(Invocation("before", -1, beforeHandlers[Top.i + 1],
                                     currentState, Top.ns, FALSE),
                          WithTop([Top EXCEPT !.i = Top.i + 1]), Top.isr)
          /\ UNCHANGED states
     ELSE /\ states' = CancelTimers(states, currentState)
          /\ stack' = WithTop([Top EXCEPT !.pc = "exit", !.i = 0])
          /\ UNCHANGED <<log, nreent>>
  /\ UNCHANGED <<world, platform, machine, beforeHandlers, afterHandlers, now, call, ret>>

\* A faulty swap that does not record the state being left.
SwapStale(f) == [cur |-> f.ns, prev |-> previousState]

\* A faulty swap that records the state the top-level call was made in.
SwapFromCallTime(f) == [cur |-> f.ns, prev |-> call.from]

\* The state swap of setState, lines 266-269.
Swap(f) == [cur |-> f.ns, prev |-> currentState]

\* setState, lines 261-269: the onExit callbacks of the current state, then
\* the state swap.
SetStateExit ==
  /\ ~Idle
  /\ Top.fn = "setState"
  /\ Top.pc = "exit"
  /\ IF Top.i < Len(states[currentState].onExits)
     THEN /\ CallbackRuns(Invocation("exit", currentState,
                                     states[currentState].onExits[Top.i + 1],
                                     currentState, Top.ns, FALSE),
                          WithTop([Top EXCEPT !.i = Top.i + 1]), Top.isr)
          /\ UNCHANGED <<machine, states>>
     ELSE /\ previousState' = Swap(Top).prev
          /\ currentState' = Swap(Top).cur
          /\ stateEnteredTime' = now
          /\ stateChanged' = TRUE
          /\ states' = MarkLeft(states, currentState, Top.ns)
          /\ stack' = WithTop([Top EXCEPT !.pc = "enter", !.i = 0])
          /\ UNCHANGED <<log, nreent>>
  /\ UNCHANGED <<world, platform, beforeHandlers, afterHandlers, now, call, ret>>

\* setState, lines 271-319: the onEnter callbacks of the current state, then
\* the arming of its timeouts.
SetStateEnter ==
  /\ ~Idle
  /\ Top.fn = "setState"
  /\ Top.pc = "enter"
  /\ IF Top.i < Len(states[currentState].onEnters)
     THEN /\ CallbackRuns(Invocation("enter", currentState,
                                     states[currentState].onEnters[Top.i + 1],
                                     currentState, previousState, FALSE),
                          WithTop([Top EXCEPT !.i = Top.i + 1]), Top.isr)
          /\ UNCHANGED states
     ELSE /\ states' = ArmTimers(states, currentState)
          /\ stack' = WithTop([Top EXCEPT !.pc = "after", !.i = 0])
          /\ UNCHANGED <<log, nreent>>
  /\ UNCHANGED <<world, platform, machine, beforeHandlers, afterHandlers, now, call, ret>>

\* setState, lines 321-325: the after-change handlers, then the return.
\* In the StateRecovery sketch the after-change handler is
\* saveStateTransition, which appends a record to the log file and returns.
SetStateAfter ==
  /\ ~Idle
  /\ Top.fn = "setState"
  /\ Top.pc = "after"
  /\ IF Top.i < Len(afterHandlers)
     THEN IF flash.mounted
          THEN /\ flash' = SaveStateTransition(flash, previousState, currentState)
               /\ log' = Append(LogSoFar,
                                Invocation("after", -1, afterHandlers[Top.i + 1],
                                           previousState, currentState, FALSE))
               /\ stack' = WithTop([Top EXCEPT !.i = Top.i + 1])
               /\ nreent' = ReentriesSoFar
          ELSE /\ CallbackRuns(Invocation("after", -1, afterHandlers[Top.i + 1],
                                          previousState, currentState, FALSE),
                               WithTop([Top EXCEPT !.i = Top.i + 1]), Top.isr)
               /\ UNCHANGED flash
     ELSE /\ stack' = Popped
          /\ UNCHANGED <<log, nreent, flash>>
  /\ UNCHANGED <<numStates, eager, alive, instance, looseTickers, fault>>
  /\ UNCHANGED <<platform, machine, registry, now, call, ret>>


\* void onTimeout(state, timeoutIndex), lines 18-32, on the state array st.
\* stale: the history flag of the timer whose expiry is being dispatched.
OnTimeout(st, s, k, stale, stk, isr) ==
  IF currentState = s /\ k < Len(st[s].timeouts)
  THEN /\ states' = [st EXCEPT ![s].timeouts[k + 1].active = FALSE]
       /\ CallbackRuns(Invocation("timeout", s, st[s].timeouts[k + 1].callback,
                                  currentState, previousState, stale),
                       stk, isr)
  ELSE /\ states' = st
       /\ stack' = stk
       /\ log' = LogSoFar
       /\ nreent' = ReentriesSoFar

\* void onTimeout(state, timeoutIndex) is a public method: the sketch, or the
\* Ticker of another machine through the static pointer, calls it on this
\* object between two other calls.  Line 20 compares currentState with state
\* first and reads states[state] only when they are equal; when states holds
\* no such record (numberOfStates = 0) that read is outside the array: the
\* call finds nothing to do and returns, or the program goes astray.
CallOnTimeout(s, k) ==
  /\ Idle
  /\ call' = [Call("onTimeout") EXCEPT !.s = s]
  /\ IF currentState = s /\ s \notin DOMAIN states
     THEN /\ fault' = TRUE
          /\ states' = states
          /\ log' = <<>>
          /\ nreent' = 0
          /\ \/ stack' = <<>>
             \/ stack' = <<Frame("onTimeout", "lost", 0, 0, FALSE)>>
     ELSE /\ OnTimeout(states, s, k, FALSE, <<>>, FALSE)
          /\ UNCHANGED fault
  /\ UNCHANGED <<platform, machine, beforeHandlers, afterHandlers, now, ret>>
  /\ UNCHANGED <<numStates, eager, flash, alive, instance, looseTickers>>

\* A faulty dispatch that goes to this object whatever the static pointer
\* names.
OnTimeoutToThis(st, s, k, stale, stk) ==
  /\ OnTimeout(st, s, k, stale, stk, TRUE)
  /\ UNCHANGED fault

\* onTimeoutStatic(state, index), lines 12-16: the call goes to the object the
\* static pointer names.  When that is another machine, this one sees
\* nothing.  When it is this machine and the object has been destroyed, the
\* call reads released storage: it acts as if the members were still there,
\* or finds nothing to do, or the program goes astray.
OnTimeoutStatic(st, s, k, stale, stk) ==
  IF instance # "this"
  THEN /\ states' = st
       /\ stack' = stk
       /\ log' = LogSoFar
       /\ nreent' = ReentriesSoFar
       /\ UNCHANGED fault
  ELSE IF alive
  THEN /\ OnTimeout(st, s, k, stale, stk, TRUE)
       /\ UNCHANGED fault
  ELSE /\ fault' = TRUE
       /\ \/ OnTimeout(st, s, k, stale, stk, TRUE)
          \/ /\ states' = st
             /\ stack' = stk
             /\ log' = LogSoFar
             /\ nreent' = ReentriesSoFar
          \/ /\ states' = st
             /\ stack' = Append(stk, Frame("onTimeout", "lost", 0, 0, TRUE))
             /\ log' = LogSoFar
             /\ nreent' = ReentriesSoFar

\* ESP: the Ticker of entry k (1-based) of state s expires and runs its lambda,
\* onTimeoutStatic(state, index), lines 12-16 and 285-287.  It runs to its
\* end, with every call it makes, before the main thread goes on, and no
\* second Ticker callback runs meanwhile.
Fire(s, k) ==
  /\ IsESP
  /\ ~InIsr
  /\ k \in 1 .. Len(states[s].timeouts)
  /\ LET t == states[s].timeouts[k].timer IN
       /\ t.active
       /\ Elapsed(t) >= t.duration
       /\ OnTimeoutStatic([states EXCEPT ![s].timeouts[k].timer.active = FALSE],
                          t.st % Uint8Modulus, t.idx % Uint8Modulus, t.left, stack)
  /\ call' = IF Idle THEN Call("fire") ELSE call
  /\ UNCHANGED <<platform, machine, beforeHandlers, afterHandlers, now, ret>>
  /\ UNCHANGED <<numStates, eager, flash, alive, instance, looseTickers>>

\* ESP: a Ticker that no entry of this machine holds expires and runs its
\* lambda, onTimeoutStatic(state, index) with what it captured when armed.
FireLoose(t) ==
  /\ IsESP
  /\ ~InIsr
  /\ t \in looseTickers
  /\ t.active
  /\ looseTickers' = looseTickers \ {t}
  /\ OnTimeoutStatic(states, t.st % Uint8Modulus, t.idx % Uint8Modulus, TRUE, stack)
  /\ call' = IF Idle THEN Call("fire") ELSE call
  /\ UNCHANGED <<platform, machine, beforeHandlers, afterHandlers, now, ret>>
  /\ UNCHANGED <<numStates, eager, flash, alive, instance>>

\* A second EventStateMachine object of the sketch enters one of its states
\* that has a timeout: its setState arms a Ticker with the lambda
\* [state, index] (lines 278-287).  That setState is called from the main
\* thread, between two calls made on this machine.  One such Ticker at a time.
OtherArms(st, idx) ==
  /\ IsESP
  /\ Idle
  /\ \A t \in looseTickers : t.owner # "other"
  /\ looseTickers' = looseTickers
       \cup {[owner |-> "other", st |-> st, idx |-> idx, active |-> TRUE]}
  /\ UNCHANGED <<platform, machine, registry, now, stack, log, call, ret, nreent,
                 numStates, eager, flash, alive, instance, fault>>

\* void setInstance() of this machine (who = "this") or of the second one.
SetInstance(who) ==
  /\ Idle
  /\ instance' = who
  /\ UNCHANGED <<platform, machine, registry, now, stack, log, call, ret, nreent,
                 numStates, eager, flash, alive, looseTickers, fault>>

\* The sketch constructs its second machine after this one: that constructor
\* ends with setInstance() (line 48) and the static pointer names the new
\* object.
OtherConstructed ==
  /\ Idle
  /\ instance = "this"
  /\ instance' = "other"
  /\ UNCHANGED <<platform, machine, registry, now, stack, log, call, ret, nreent,
                 numStates, eager, flash, alive, looseTickers, fault>>

\* ~EventStateMachine(), lines 51-61: every timer of every state is detached
\* and its entry marked inactive, then the records are released.  The static
\* pointer is left as it is.
DestroyTimers(st) == [x \in DOMAIN st |-> CancelTimers(st, x)[x]]

Destroy ==
  /\ Idle
  /\ alive
  /\ states' = DestroyTimers(states)
  /\ alive' = FALSE
  /\ call' = Call("destroy")
  /\ log' = <<>>
  /\ nreent' = 0
  /\ UNCHANGED <<platform, machine, beforeHandlers, afterHandlers, now, stack, ret,
                 numStates, eager, flash, instance, looseTickers, fault>>

\* TimerImplementation::update(): the timer afterwards and the returned bool.
\* A faulty update() that does not look at the active flag.
TimerUpdateWhateverActive(t) ==
  IF Elapsed(t) >= t.duration
  THEN [timer |-> [t EXCEPT !.active = FALSE], fired |-> t.hasCb]
  ELSE [timer |-> t, fired |-> FALSE]

TimerUpdate(t) ==
  IF t.active /\ Elapsed(t) >= t.duration
  THEN [timer |-> [t EXCEPT !.active = FALSE], fired |-> t.hasCb]
  ELSE [timer |-> t, fired |-> FALSE]

\* void update(), called from the main thread.
Update ==
  /\ Idle
  /\ call' = [op |-> "update", s |-> 0, from |-> currentState]
  /\ log' = <<>>
  /\ nreent' = 0
  /\ stack' = <<Frame("update", IF IsESP THEN "onStates" ELSE "timers", 0, 0, FALSE)>>
  /\ UNCHANGED <<world, platform, machine, registry, now, ret>>

\* update, lines 328-337 (non-ESP builds): one iteration of the timer scan.
UpdateTimers ==
  /\ ~Idle
  /\ Top.fn = "update"
  /\ Top.pc = "timers"
  /\ IF Top.i < Len(states[currentState].timeouts)
     THEN LET e == states[currentState].timeouts[Top.i + 1]
              u == TimerUpdate(e.timer)
              st == IF e.active
                    THEN [states EXCEPT ![currentState].timeouts[Top.i + 1].timer = u.timer]
                    ELSE states
              stk == WithTop([Top EXCEPT !.i = Top.i + 1])
          IN IF e.active /\ u.fired
             THEN OnTimeout(st, currentState, Top.i % Uint8Modulus, e.timer.left,
                            stk, Top.isr)
             ELSE /\ states' = st
                  /\ stack' = stk
                  /\ UNCHANGED <<log, nreent>>
     ELSE /\ stack' = WithTop([Top EXCEPT !.pc = "onStates", !.i = 0])
          /\ UNCHANGED <<states, log, nreent>>
  /\ UNCHANGED <<world, platform, machine, beforeHandlers, afterHandlers, now, call, ret>>

\* update, lines 339-345: the onState callbacks of the current state, then
\* stateChanged = false.
UpdateOnStates ==
  /\ ~Idle
  /\ Top.fn = "update"
  /\ Top.pc = "onStates"
  /\ IF Top.i < Len(states[currentState].onStates)
     THEN /\ CallbackRuns(Invocation("state", currentState,
                                     states[currentState].onStates[Top.i + 1],
                                     currentState, currentState, FALSE),
                          WithTop([Top EXCEPT !.i = Top.i + 1]), Top.isr)
          /\ UNCHANGED stateChanged
     ELSE /\ stateChanged' = FALSE
          /\ stack' = Popped
          /\ UNCHANGED <<log, nreent>>
  /\ UNCHANGED <<world, platform, currentState, previousState, stateEnteredTime,
                 registry, now, call, ret>>

\* update, lines 330 and 340, when states holds no record currentState (a
\* machine constructed with numberOfStates = 0 has none, and currentState is
\* 0): the loop condition reads the size of a list in storage that was never
\* allocated.  What it reads is not defined: the call finds the lists empty
\* and returns, or the program goes astray and is not heard of again.
UpdateNoRecord ==
  /\ ~Idle
  /\ Top.fn = "update"
  /\ currentState \notin DOMAIN states
  /\ fault' = TRUE
  /\ \/ /\ stateChanged' = FALSE
        /\ stack' = Popped
     \/ /\ stack' = WithTop([Top EXCEPT !.pc = "lost"])
        /\ UNCHANGED stateChanged
  /\ UNCHANGED <<platform, currentState, previousState, stateEnteredTime,
                 registry, now, log, call, ret, nreent,
                 numStates, eager, flash, alive, instance, looseTickers>>

\* millis() advances by one while the main thread is between two calls.
Tick ==
  /\ Idle
  /\ (now - BootTime) % ClockModulus < MaxTicks
  /\ now' = (now + 1) % ClockModulus
  /\ call' = Call("tick")
  /\ log' = <<>>
  /\ nreent' = 0
  /\ UNCHANGED <<world, platform, machine, registry, stack, ret>>

\* ---------------------------------------------------------- specifications
\* The engine: a few registrations, then transitions, updates, timer expiry
\* and callbacks that call setState again.
\* Callbacks are opaque function pointers: a registration hands over a
\* function that is registered already, or the next one that is not.
Range(c) == {c[k] : k \in 1 .. Len(c)}
UsedCbs ==
  UNION {Range(states[s].onEnters) \cup Range(states[s].onStates)
           \cup Range(states[s].onExits)
           \cup {states[s].timeouts[k].callback : k \in 1 .. Len(states[s].timeouts)}
         : s \in DOMAIN states}
    \cup Range(beforeHandlers) \cup Range(afterHandlers)
CbChoices == {c \in Cbs : \A b \in Cbs : b < c => b \in UsedCbs}

Registrations ==
  \/ \E s \in States, cb \in CbChoices : AddOnEnter(s, cb)
  \/ \E s \in States, cb \in CbChoices : AddOnExit(s, cb)
  \/ \E s \in States, cb \in CbChoices : AddOnState(s, cb)
  \/ \E s \in States, cb \in CbChoices, d \in Durations : AddTimeout(s, d, cb)
  \/ \E h \in CbChoices : AddBeforeStateChangeHandler(h)
  \/ \E h \in CbChoices : AddAfterStateChangeHandler(h)

Next ==
  \/ TotalEntries < MaxRegs /\ Registrations
  \/ \E n \in StateArgs : SetState(n)
  \/ SetStateBefore
  \/ SetStateExit
  \/ SetStateEnter
  \/ SetStateAfter
  \/ Update
  \/ UpdateTimers
  \/ UpdateOnStates
  \/ \E s \in States, k \in 1 .. MaxRegs : Fire(s, k)
  \/ Tick

Init == InitOn({"ESP", "AVR"})

Spec == Init /\ [][Next]_vars


\* The life of the object on the Ticker build: timeouts are added to the
\* highest state, the machine changes state, a second machine of the sketch
\* arms its own Tickers, either machine may call setInstance(), and in the end
\* the object is destroyed.  The public methods are called on a live object
\* only.  The clock stands still: a timeout of duration 0 expires at once, a
\* longer one keeps counting.
LifeCalls ==
  \/ \E cb \in CbChoices, d \in Durations :
       TotalEntries < MaxRegs /\ AddTimeout(NumStates - 1, d, cb)
  \/ \E n \in StateArgs : SetState(n)
  \/ \E who \in {"this", "other"} : SetInstance(who)
  \/ Destroy

NextLife ==
  \/ alive /\ LifeCalls
  \/ SetStateBefore
  \/ SetStateExit
  \/ SetStateEnter
  \/ SetStateAfter
  \/ \E s \in States, k \in 1 .. MaxRegs : Fire(s, k)
  \/ \E t \in looseTickers : FireLoose(t)
  \/ \E st \in States : OtherArms(st, 0)

InitLife == InitOn({"ESP"})

SpecLife == InitLife /\ [][NextLife]_vars


\* Timeouts come and go while the machine runs, on the Ticker build and on a
\* polling build: addTimeout and removeTimeout on every state, transitions,
\* updates and Ticker expiry, all timeouts with the same callback.  The clock
\* stands still: a timeout of duration 0 expires at once, a longer one keeps
\* counting.
RemoveCalls ==
  \/ \E s \in States, d \in Durations :
       TotalEntries < MaxRegs /\ AddTimeout(s, d, 1)
  \/ \E s \in States, d \in Durations : RemoveTimeout(s, d)
  \/ \E n \in States : SetState(n)
  \/ Update

NextRemove ==
  \/ RemoveCalls
  \/ SetStateBefore
  \/ SetStateExit
  \/ SetStateEnter
  \/ SetStateAfter
  \/ UpdateTimers
  \/ UpdateOnStates
  \/ \E s \in States, k \in 1 .. MaxRegs : Fire(s, k)

InitRemove == InitOn({"ESP", "AVR"})

SpecRemove == InitRemove /\ [][NextRemove]_vars


\* A machine constructed with numberOfStates = 0, on all three builds: the
\* constructor accepts the argument, and every public method can be called.
ZeroCalls ==
  \/ \E s \in StateArgs, cb \in CbArgs : AddOnEnter(s, cb)
  \/ \E s \in StateArgs, cb \in CbArgs : AddOnState(s, cb)
  \/ \E s \in StateArgs, cb \in CbArgs : AddOnExit(s, cb)
  \/ \E s \in StateArgs, cb \in CbArgs, d \in Durations : AddTimeout(s, d, cb)
  \/ \E h \in CbArgs : Len(beforeHandlers) < MaxRegs /\ AddBeforeStateChangeHandler(h)
  \/ \E h \in CbArgs : Len(afterHandlers) < MaxRegs /\ AddAfterStateChangeHandler(h)
  \/ \E n \in StateArgs : SetState(n)

NextZero ==
  \/ ZeroCalls
  \/ Update
  \/ UpdateNoRecord
  \/ \E s \in StateArgs, k \in 0 .. MaxRegs : CallOnTimeout(s, k)
  \/ Tick

InitZero == Constructed(Platforms, 0)

SpecZero == InitZero /\ [][NextZero]_vars


\* The registry alone, on all three builds: every add and remove method with
\* valid and invalid arguments.  The lists stay short (MaxLen entries in all),
\* except that one list, alone in the registry, may be filled with the
\* callback 1 and the duration 1 up to the capacity of SimpleArray and, on the
\* std::vector builds, to MaxVecLen.
\* The setup() of a sketch, on all three builds: configureState and addTimeout
\* with every combination of null and non-null callbacks, timeouts of 0 ms and
\* more, valid and invalid state ids.
\* The callbacks the sketch has: one StateCallback and one StateFunction.
StateCallbackArgs == {NULL, 1}
StateFunctionArgs == {NULL, NumCb}

CfgCalls ==
  \/ \E s \in StateArgs, t \in Durations :
       \E onEnter \in StateCallbackArgs, onState \in StateFunctionArgs :
         \E onExit \in StateCallbackArgs, onTimeout \in StateCallbackArgs :
           ConfigureState(s, t, onEnter, onState, onExit, onTimeout)
  \/ \E s \in StateArgs, d \in Durations, cb \in CbArgs : AddTimeout(s, d, cb)

NextCfg == TotalEntries < MaxRegs /\ CfgCalls

InitCfg == InitOn(Platforms)

SpecCfg == InitCfg /\ [][NextCfg]_vars


\* A faulty timeInCurrentState() that subtracts without wrapping.
TimeInCurrentStateUnwrapped == now - stateEnteredTime

\* unsigned long timeInCurrentState(), lines 359-361: millis() -
\* stateEnteredTime in unsigned long arithmetic.
TimeInCurrentState == (now - stateEnteredTime) % ClockModulus

\* Half a period of the millisecond clock.
HalfPeriod == ClockModulus \div 2
\* What millis() may have advanced by between two calls: a millisecond, or
\* half a clock period.
ClockSteps == {1, HalfPeriod}

\* millis() advances by d between two calls on the machine.  Single
\* milliseconds are counted up to MaxTicks in each half period.
Pass(d) ==
  /\ Idle
  /\ d = 1 => (now - BootTime) % HalfPeriod < MaxTicks
  /\ now' = (now + d) % ClockModulus
  /\ call' = Call("pass")
  /\ log' = <<>>
  /\ nreent' = 0
  /\ UNCHANGED <<world, platform, machine, registry, stack, ret>>

\* The machine over long stays: setState with valid and invalid ids while the
\* millisecond clock runs on, round its period and further, on all builds.
NextClock ==
  \/ \E d \in ClockSteps : Pass(d)
  \/ \E n \in StateArgs : SetState(n)
  \/ SetStateBefore
  \/ SetStateExit
  \/ SetStateEnter
  \/ SetStateAfter

InitClock == InitOn(Platforms)

SpecClock == InitClock /\ [][NextClock]_vars


\* Calls that may be turned down, on the Ticker build and on a polling build:
\* every add and remove method with the highest valid state id and the lowest
\* invalid one, with a callback or null, with durations that are registered or
\* not, and setState with every id, while timers are armed.
MisuseCalls ==
  \/ \E s \in {NumStates - 1, NumStates}, cb \in StateCallbackArgs :
       TotalEntries < MaxRegs /\ AddOnEnter(s, cb)
  \/ \E s \in {NumStates - 1, NumStates}, cb \in StateCallbackArgs :
       TotalEntries < MaxRegs /\ AddOnState(s, cb)
  \/ \E s \in {NumStates - 1, NumStates}, cb \in StateCallbackArgs :
       TotalEntries < MaxRegs /\ AddOnExit(s, cb)
  \/ \E s \in {NumStates - 1, NumStates}, cb \in StateCallbackArgs, d \in Durations :
       TotalEntries < MaxRegs /\ AddTimeout(s, d, cb)
  \/ \E s \in {NumStates - 1, NumStates}, cb \in StateCallbackArgs : RemoveOnEnter(s, cb)
  \/ \E s \in {NumStates - 1, NumStates}, cb \in StateCallbackArgs : RemoveOnState(s, cb)
  \/ \E s \in {NumStates - 1, NumStates}, cb \in StateCallbackArgs : RemoveOnExit(s, cb)
  \/ \E s \in {NumStates - 1, NumStates}, d \in Durations : RemoveTimeout(s, d)
  \/ \E n \in StateArgs : SetState(n)

NextMisuse ==
  \/ MisuseCalls
  \/ SetStateBefore
  \/ SetStateExit
  \/ SetStateEnter
  \/ SetStateAfter

InitMisuse == InitOn({"ESP", "AVR"})

SpecMisuse == InitMisuse /\ [][NextMisuse]_vars


\* A sketch as the examples write it: setup() registers onEnter callbacks and
\* timeouts and then seeds the initial state with one setState call; loop()
\* calls update() while the clock runs and timers expire.
InSetup == call.op \in {"none", "addOnEnter", "addTimeout"}

SeedCalls ==
  \/ \E s \in States, cb \in Cbs :
       InSetup /\ TotalEntries < MaxRegs /\ AddOnEnter(s, cb)
  \/ \E s \in States, cb \in Cbs, d \in 1 .. MaxDur :
       InSetup /\ TotalEntries < MaxRegs /\ AddTimeout(s, d, cb)
  \/ \E n \in StateArgs : InSetup /\ SetState(n)

NextSeed ==
  \/ SeedCalls
  \/ SetStateBefore
  \/ SetStateExit
  \/ SetStateEnter
  \/ SetStateAfter
  \/ Update
  \/ UpdateTimers
  \/ UpdateOnStates
  \/ \E s \in States, k \in 1 .. MaxRegs : Fire(s, k)
  \/ Tick

InitSeed == InitOn(Platforms)

SpecSeed == InitSeed /\ [][NextSeed]_vars


\* Two machines in one sketch on the Ticker build, nobody calling
\* setInstance(): this machine is the one constructed last (the static pointer
\* names it) until the other one is constructed after it.  Both arm Tickers,
\* the clock runs, Tickers expire.
TwoCalls ==
  \/ \E cb \in CbChoices, d \in Durations :
       TotalEntries < MaxRegs /\ AddTimeout(NumStates - 1, d, cb)
  \/ \E n \in States : SetState(n)
  \/ OtherConstructed

NextTwo ==
  \/ TwoCalls
  \/ SetStateBefore
  \/ SetStateExit
  \/ SetStateEnter
  \/ SetStateAfter
  \/ \E s \in States, k \in 1 .. MaxRegs : Fire(s, k)
  \/ \E t \in looseTickers : FireLoose(t)
  \/ \E st \in States, idx \in 0 .. 1 : OtherArms(st, idx)
  \/ Tick

InitTwo == InitOn({"ESP"})

SpecTwo == InitTwo /\ [][NextTwo]_vars

\* ---------------------------------------------------------------------------
\* A sketch whose callbacks call setState at every one of their invocations,
\* once per invocation: before-change handlers, onExit and onEnter callbacks
\* registered from setup(), transitions requested from loop().  A call that
\* has started keeps executing, which is the fairness of SpecDeep: the
\* processor runs the statements of setState one after the other.
DeepCalls ==
  \/ /\ TotalEntries < MaxRegs
     /\ \E h \in CbChoices : AddBeforeStateChangeHandler(h)
  \/ /\ TotalEntries < MaxRegs
     /\ \E s \in States, cb \in CbChoices : AddOnExit(s, cb)
  \/ /\ TotalEntries < MaxRegs
     /\ \E s \in States, cb \in CbChoices : AddOnEnter(s, cb)
  \/ \E n \in StateArgs : SetState(n)

SetStateRuns == SetStateBefore \/ SetStateExit \/ SetStateEnter \/ SetStateAfter

NextDeep ==
  \/ DeepCalls
  \/ SetStateBefore
  \/ SetStateExit
  \/ SetStateEnter
  \/ SetStateAfter

InitDeep == Built({"AVR"}, NumStates) /\ eager = TRUE /\ flash = NoStorage

SpecDeep == InitDeep /\ [][NextDeep]_vars /\ WF_vars(SetStateRuns)

\* ---------------------------------------------------------------------------
\* Timeouts of one state added and removed on the Ticker build while the
\* state is current and its Tickers are counting; the clock runs and the
\* Tickers expire.
ShiftCalls ==
  \/ \E cb \in CbChoices, d \in 1 .. MaxDur :
       TotalEntries < MaxRegs /\ AddTimeout(NumStates - 1, d, cb)
  \/ \E d \in 1 .. MaxDur : RemoveTimeout(NumStates - 1, d)
  \/ \E n \in States : SetState(n)

NextShift ==
  \/ ShiftCalls
  \/ SetStateBefore
  \/ SetStateExit
  \/ SetStateEnter
  \/ SetStateAfter
  \/ \E s \in States, k \in 1 .. MaxRegs : Fire(s, k)
  \/ Tick

InitShift == InitOn({"ESP"})

SpecShift == InitShift /\ [][NextShift]_vars

\* ---------------------------------------------------------------------------
\* The two global handler lists: handlers added and removed between
\* transitions, duplicates and null included, on the Ticker and SimpleArray builds.  Lists
\* longer than MaxLen hold the first callback only, so that a SimpleArray can
\* be filled; transitions are made with MaxLen handlers at most.
HandlersMayGrow(c, h) ==
  IF TotalEntries < MaxLen THEN TRUE
  ELSE h <= 1 /\ Len(c) = TotalEntries /\ TotalEntries < MaxVecLen

HandlerCalls ==
  \/ \E h \in CbArgs :
       HandlersMayGrow(beforeHandlers, h) /\ AddBeforeStateChangeHandler(h)
  \/ \E h \in CbArgs :
       HandlersMayGrow(afterHandlers, h) /\ AddAfterStateChangeHandler(h)
  \/ \E h \in CbArgs : RemoveBeforeStateChangeHandler(h)
  \/ \E h \in CbArgs : RemoveAfterStateChangeHandler(h)
  \/ \E n \in States : TotalEntries <= MaxLen /\ SetState(n)

NextHandlers ==
  \/ HandlerCalls
  \/ SetStateBefore
  \/ SetStateExit
  \/ SetStateEnter
  \/ SetStateAfter

InitHandlers == InitOn({"ESP", "AVR"})

SpecHandlers == InitHandlers /\ [][NextHandlers]_vars

\* ---------------------------------------------------------------------------
\* Every operation of the registry, called between transitions that move the
\* machine and arm its timers: the add and remove methods of the four lists
\* of a state, configureState, and the add and remove methods of the two
\* global handler lists, with valid and invalid arguments, on the Ticker and
\* SimpleArray builds.
\* The first state, the last one and the first invalid id.
FrameStateArgs == {0, NumStates - 1, NumStates}

FrameAdds ==
  \/ \E s \in FrameStateArgs, cb \in StateCallbackArgs : AddOnEnter(s, cb)
  \/ \E s \in FrameStateArgs, cb \in StateCallbackArgs : AddOnState(s, cb)
  \/ \E s \in FrameStateArgs, cb \in StateCallbackArgs : AddOnExit(s, cb)
  \/ \E s \in FrameStateArgs, cb \in StateCallbackArgs, d \in Durations : AddTimeout(s, d, cb)
  \/ \E h \in StateCallbackArgs : AddBeforeStateChangeHandler(h)
  \/ \E h \in StateCallbackArgs : AddAfterStateChangeHandler(h)
  \/ \E t \in Durations :
       \E onEnter \in StateCallbackArgs, onState \in StateFunctionArgs :
         \E onExit \in StateCallbackArgs, onTimeout \in StateCallbackArgs :
           ConfigureState(NumStates - 1, t, onEnter, onState, onExit, onTimeout)

FrameRemoves ==
  \/ \E s \in FrameStateArgs, cb \in StateCallbackArgs : RemoveOnEnter(s, cb)
  \/ \E s \in FrameStateArgs, cb \in StateCallbackArgs : RemoveOnState(s, cb)
  \/ \E s \in FrameStateArgs, cb \in StateCallbackArgs : RemoveOnExit(s, cb)
  \/ \E s \in FrameStateArgs, d \in Durations : RemoveTimeout(s, d)
  \/ \E h \in StateCallbackArgs : RemoveBeforeStateChangeHandler(h)
  \/ \E h \in StateCallbackArgs : RemoveAfterStateChangeHandler(h)

NextFrame ==
  \/ TotalEntries < MaxRegs /\ FrameAdds
  \/ FrameRemoves
  \/ \E n \in {0, NumStates - 1} : SetState(n)
  \/ SetStateBefore
  \/ SetStateExit
  \/ SetStateEnter
  \/ SetStateAfter

InitFrame == InitOn({"ESP", "AVR"})

SpecFrame == InitFrame /\ [][NextFrame]_vars

\* ---------------------------------------------------------------------------
\* The polling TimerImplementation by itself: the timer object of the one
\* timeout entry of the last state, its methods called in any order while the
\* millisecond clock runs and wraps.  The machine stays in state 0 and never
\* touches the timer.
HasTimer == Len(states[NumStates - 1].timeouts) = 1

Timer == states[NumStates - 1].timeouts[1].timer

TimerBecomes(t) ==
  /\ states' = [states EXCEPT ![NumStates - 1].timeouts[1].timer = t]
  /\ log' = <<>>
  /\ nreent' = 0
  /\ UNCHANGED <<world, platform, machine, beforeHandlers, afterHandlers, now, stack>>

\* Durations a timer is armed with: none, one tick, half the clock period.
TimerDurations == {0, 1, HalfPeriod}

\* once_ms(ms, func)
TimerOnceMs(ms, func) ==
  /\ Idle
  /\ HasTimer
  /\ TimerBecomes(OnceMs(Timer, ms, func # NULL, 0, 0))
  /\ call' = Call("once_ms")
  /\ UNCHANGED ret

\* detach()
TimerDetach ==
  /\ Idle
  /\ HasTimer
  /\ TimerBecomes(Detach(Timer))
  /\ call' = Call("detach")
  /\ UNCHANGED ret

\* update(), its result in ret
TimerUpdateCall ==
  /\ Idle
  /\ HasTimer
  /\ TimerBecomes(TimerUpdate(Timer).timer)
  /\ ret' = TimerUpdate(Timer).fired
  /\ call' = Call("timerUpdate")

NextTimer ==
  \/ ~HasTimer /\ AddTimeout(NumStates - 1, 1, 1)
  \/ \E ms \in TimerDurations, func \in StateCallbackArgs : TimerOnceMs(ms, func)
  \/ TimerDetach
  \/ TimerUpdateCall
  \/ \E d \in ClockSteps : Pass(d)

InitTimer == InitOn({"RP2040", "AVR"})

SpecTimer == InitTimer /\ [][NextTimer]_vars

\* ---------------------------------------------------------------------------
\* The StateRecovery sketch: saveStateTransition is registered as the only
\* after-change handler, the commands of loop() request transitions and clear
\* the log, the clock runs, and recoverLastStateFromFlash reads the log as
\* setup() does after a restart.  The storage is mounted and works; at boot
\* the log file is missing or empty.
\* recoverLastStateFromFlash(recoveredState), recoveredState being 0
RecoverCall ==
  /\ Idle
  /\ flash.mounted
  /\ LET r == RecoverLastStateFromFlash(flash.exists, flash.bytes, 0)
     IN /\ flash' = [flash EXCEPT !.ok = r.ok, !.lastState = r.lastState]
        /\ ret' = r.ok
  /\ call' = Call("recover")
  /\ log' = <<>>
  /\ nreent' = 0
  /\ UNCHANGED <<platform, machine, registry, now, stack>>
  /\ UNCHANGED <<numStates, eager, alive, instance, looseTickers, fault>>

\* command 'c': STORAGE_REMOVE(STATE_LOG_FILENAME)
ClearLog ==
  /\ Idle
  /\ flash.mounted
  /\ flash.exists
  /\ flash' = [flash EXCEPT !.exists = FALSE, !.bytes = <<>>, !.records = <<>>]
  /\ call' = Call("clearLog")
  /\ log' = <<>>
  /\ nreent' = 0
  /\ UNCHANGED <<platform, machine, registry, now, stack, ret>>
  /\ UNCHANGED <<numStates, eager, alive, instance, looseTickers, fault>>

RecoveryCalls ==
  \/ Len(afterHandlers) = 0 /\ AddAfterStateChangeHandler(1)
  \/ \E n \in States :
       /\ Len(afterHandlers) = 1
       /\ Len(flash.records) < MaxRecords
       /\ SetState(n)
  \/ RecoverCall
  \/ ClearLog

NextRecovery ==
  \/ RecoveryCalls
  \/ SetStateBefore
  \/ SetStateExit
  \/ SetStateEnter
  \/ SetStateAfter
  \/ \E d \in ClockSteps : Pass(d)

InitRecovery ==
  /\ Built({"ESP", "AVR"}, NumStates)
  /\ eager = FALSE
  /\ \E found \in BOOLEAN : flash = [NoStorage EXCEPT !.mounted = TRUE, !.exists = found]

SpecRecovery == InitRecovery /\ [][NextRecovery]_vars

\* ---------------------------------------------------------------------------
\* A long timeout list on the Ticker build, whose std::vector grows as far as
\* memory allows: one more entry than a uint8_t can count.  The entries added
\* first wait half a clock period and hold the first callback; the entry at
\* position Uint8Modulus waits one millisecond and holds the second one.  The
\* list is filled in setup(), the transitions are made from loop().
WideLen == Uint8Modulus + 1

WideCalls ==
  \/ /\ InSetup
     /\ Len(states[NumStates - 1].timeouts) < WideLen
     /\ IF Len(states[NumStates - 1].timeouts) < Uint8Modulus
        THEN AddTimeout(NumStates - 1, HalfPeriod, 1)
        ELSE AddTimeout(NumStates - 1, 1, NumCb)
  \/ \E n \in States :
       Len(states[NumStates - 1].timeouts) = WideLen /\ SetState(n)

NextWide ==
  \/ WideCalls
  \/ SetStateBefore
  \/ SetStateExit
  \/ SetStateEnter
  \/ SetStateAfter
  \/ \E k \in 1 .. WideLen : Fire(NumStates - 1, k)
  \/ Tick

InitWide == InitOn({"ESP"})

SpecWide == InitWide /\ [][NextWide]_vars


\* The highest valid state id and the lowest invalid one.
RegStateArgs == {NumStates - 1, NumStates}

MayGrow(s, list, filler) ==
  IF ~IsValidState(s) THEN TRUE
  ELSE IF TotalEntries < MaxLen THEN TRUE
  ELSE filler /\ Len(states[s][list]) = TotalEntries /\ TotalEntries < MaxVecLen

RegAdds ==
  \/ \E s \in RegStateArgs, cb \in CbArgs :
       MayGrow(s, "onEnters", cb <= 1) /\ AddOnEnter(s, cb)
  \/ \E s \in RegStateArgs, cb \in CbArgs :
       MayGrow(s, "onStates", cb <= 1) /\ AddOnState(s, cb)
  \/ \E s \in RegStateArgs, cb \in CbArgs :
       MayGrow(s, "onExits", cb <= 1) /\ AddOnExit(s, cb)
  \/ \E s \in RegStateArgs, cb \in CbArgs, d \in Durations :
       MayGrow(s, "timeouts", cb <= 1 /\ d = 1) /\ AddTimeout(s, d, cb)

RegRemoves ==
  \/ \E s \in RegStateArgs, cb \in CbArgs : RemoveOnEnter(s, cb)
  \/ \E s \in RegStateArgs, cb \in CbArgs : RemoveOnState(s, cb)
  \/ \E s \in RegStateArgs, cb \in CbArgs : RemoveOnExit(s, cb)
  \/ \E s \in RegStateArgs, d \in Durations : RemoveTimeout(s, d)

NextReg == RegAdds \/ RegRemoves

InitReg == InitOn(Platforms)

SpecReg == InitReg /\ [][NextReg]_vars


\* ------------------------------------------------------------------ claims
\* The list d is the list c without its entry k (1-based), the other entries
\* in their order.
WithoutEntry(c, d, k) ==
  /\ Len(d) = Len(c) - 1
  /\ \A j \in 1 .. Len(d) : d[j] = IF j < k THEN c[j] ELSE c[j + 1]

\* The step removed the first entry of list (of state s) that passes the test
\* and returned true, or found none and returned false leaving all as it was.
RemovedFirst(s, list, hit(_)) ==
  LET c == states[s][list]
      matches == {k \in 1 .. Len(c) : hit(c[k])}
  IN IF matches = {}
     THEN ret' = FALSE /\ states' = states
     ELSE /\ ret' = TRUE
          /\ \E k \in matches :
               /\ \A j \in matches : k <= j
               /\ WithoutEntry(c, states'[s][list], k)
          /\ \A x \in States : \A l \in DOMAIN states[x] :
               (x # s \/ l # list) => states'[x][l] = states[x][l]

RemovePost(s, list, hit(_)) ==
  IF s \in States
  THEN RemovedFirst(s, list, hit)
  ELSE ret' = FALSE /\ states' = states

\* C8: removeOnEnter/removeOnExit/removeOnState(state, cb) and
\* removeTimeout(state, duration) on a valid state delete exactly the first
\* entry in list order that equals cb (removeTimeout: the first entry with
\* that duration, whatever its callback), keep every other entry, later
\* duplicates included, in its relative order, and return true; when no entry
\* matches or the state is invalid they return false and change nothing.
C8_RemoveFirstMatch ==
  [][/\ \A s \in RegStateArgs, cb \in CbArgs :
          /\ RemoveOnEnter(s, cb) => RemovePost(s, "onEnters", LAMBDA e : e = cb)
          /\ RemoveOnState(s, cb) => RemovePost(s, "onStates", LAMBDA e : e = cb)
          /\ RemoveOnExit(s, cb) => RemovePost(s, "onExits", LAMBDA e : e = cb)
     /\ \A s \in RegStateArgs, d \in Durations :
          RemoveTimeout(s, d) => RemovePost(s, "timeouts", LAMBDA e : e.duration = d)
    ]_vars

\* C8 witness: removeOnEnter has returned true on a list that held the removed
\* callback twice, an entry of another callback between the two.
C8_Witness ==
  /\ call.op = "removeOnEnter"
  /\ ret = TRUE
  /\ states[NumStates - 1].onEnters = <<2, 1>>

\* The step appended the entry e to list (of state s) and changed no other
\* list.
Appended(s, list, e) ==
  /\ states'[s][list] = Append(states[s][list], e)
  /\ \A x \in States : \A l \in DOMAIN states[x] :
       (x # s \/ l # list) => states'[x][l] = states[x][l]

\* What C9 says of one add call.
AddPostOriginal(s, cb, list, e) ==
  IF s \notin States \/ cb = NULL
  THEN ret' = FALSE /\ states' = states
  ELSE ret' = TRUE /\ Appended(s, list, e)

\* The list can take one more entry: a SimpleArray holds MAX_SIZE at most.
HasRoom(c) == platform # "AVR" \/ Len(c) < MAX_SIZE

\* What C9 amended says of one add call.
AddPostAmended(s, cb, list, e) ==
  IF s \notin States \/ cb = NULL
  THEN ret' = FALSE /\ states' = states
  ELSE IF HasRoom(states[s][list])
       THEN ret' = TRUE /\ Appended(s, list, e)
       ELSE states' = states

\* A timeout entry as registered: its duration and callback, not counting.
FreshTimeout(d, cb) ==
  [duration |-> d, callback |-> cb, active |-> FALSE,
   timer |-> [active |-> FALSE, startTime |-> 0, duration |-> 0, hasCb |-> FALSE,
              st |-> 0, idx |-> 0, left |-> FALSE]]

\* C9 as stated: addOnEnter/addOnState/addOnExit/addTimeout return false and
\* register nothing when state >= numStates or the callback is null;
\* otherwise they append the entry at the end of that state's list and
\* return true.
C9_Original ==
  [][\A s \in RegStateArgs, cb \in CbArgs :
       /\ AddOnEnter(s, cb) => AddPostOriginal(s, cb, "onEnters", cb)
       /\ AddOnState(s, cb) => AddPostOriginal(s, cb, "onStates", cb)
       /\ AddOnExit(s, cb) => AddPostOriginal(s, cb, "onExits", cb)
       /\ \A d \in Durations :
            AddTimeout(s, d, cb) => AddPostOriginal(s, cb, "timeouts", FreshTimeout(d, cb))
    ]_vars

\* C9 amended: addOnEnter/addOnState/addOnExit/addTimeout return false and
\* register nothing when state >= numStates or the callback is null;
\* otherwise, when the list has room (always on the vector builds, below
\* MAX_SIZE entries on the SimpleArray build), they append the entry at the
\* end of that state's list and return true; a full SimpleArray is left as
\* it is.
C9_Amended ==
  [][\A s \in RegStateArgs, cb \in CbArgs :
       /\ AddOnEnter(s, cb) => AddPostAmended(s, cb, "onEnters", cb)
       /\ AddOnState(s, cb) => AddPostAmended(s, cb, "onStates", cb)
       /\ AddOnExit(s, cb) => AddPostAmended(s, cb, "onExits", cb)
       /\ \A d \in Durations :
            AddTimeout(s, d, cb) => AddPostAmended(s, cb, "timeouts", FreshTimeout(d, cb))
    ]_vars

\* C9 witness: addOnEnter has returned true and its callback stands at the end
\* of a list that held another callback before.
C9_Witness ==
  /\ call.op = "addOnEnter"
  /\ ret = TRUE
  /\ states[NumStates - 1].onEnters = <<1, 2>>

\* C10: on the bounded-container build an add* call on a list that is already
\* full (MAX_SIZE entries) returns false and leaves the list unchanged.
C10_FullAddReturnsFalse ==
  [][\A s \in States, cb \in Cbs :
       /\ (AddOnEnter(s, cb) /\ IsBounded /\ Len(states[s].onEnters) = MAX_SIZE)
            => (ret' = FALSE /\ states' = states)
       /\ (AddOnState(s, cb) /\ IsBounded /\ Len(states[s].onStates) = MAX_SIZE)
            => (ret' = FALSE /\ states' = states)
       /\ (AddOnExit(s, cb) /\ IsBounded /\ Len(states[s].onExits) = MAX_SIZE)
            => (ret' = FALSE /\ states' = states)
       /\ \A d \in Durations :
            (AddTimeout(s, d, cb) /\ IsBounded /\ Len(states[s].timeouts) = MAX_SIZE)
              => (ret' = FALSE /\ states' = states)
    ]_vars


\* The last top-level call was a setState that went on to a transition, and it
\* has returned.
TransitionDone ==
  /\ Idle
  /\ call.op = "setState"
  /\ call.s \in States
  /\ call.s # call.from

\* The invocations of global handlers and onExit/onEnter callbacks in the log.
HandlerLog ==
  SelectSeq(log, LAMBDA e : e.k \in {"before", "exit", "enter", "after"})

\* What C1 expects of setState(n) made in state c.
ExpectedSequence(c, n) ==
  [j \in 1 .. Len(beforeHandlers) |->
     [k |-> "before", o |-> -1, cb |-> beforeHandlers[j], a |-> c, b |-> n,
      stale |-> FALSE]]
  \o [j \in 1 .. Len(states[c].onExits) |->
        [k |-> "exit", o |-> c, cb |-> states[c].onExits[j], a |-> c, b |-> n,
         stale |-> FALSE]]
  \o [j \in 1 .. Len(states[n].onEnters) |->
        [k |-> "enter", o |-> n, cb |-> states[n].onEnters[j], a |-> n, b |-> c,
         stale |-> FALSE]]
  \o [j \in 1 .. Len(afterHandlers) |->
        [k |-> "after", o |-> -1, cb |-> afterHandlers[j], a |-> c, b |-> n,
         stale |-> FALSE]]

\* C1: for a machine in state c and any valid newState # c, when no callback
\* calls setState reentrantly, one call setState(newState) invokes exactly:
\* every before-change handler in registration order with (c, newState), then
\* every onExit callback of c in order with (c, newState), then every onEnter
\* callback of newState in order with (newState, c), then every after-change
\* handler in order with (c, newState); each entry once, nothing of any other
\* state.
C1_TransitionSequence ==
  (TransitionDone /\ nreent = 0) => HandlerLog = ExpectedSequence(call.from, call.s)

\* C1 witness: a transition without reentrant calls has run an onExit callback
\* of the old state and then an onEnter callback of the new one.
C1_Witness ==
  /\ TransitionDone
  /\ nreent = 0
  /\ Len(HandlerLog) = 2
  /\ HandlerLog[1].k = "exit"
  /\ HandlerLog[2].k = "enter"

\* The setState call of this step returned at once: nothing was invoked and
\* the machine, every list and every timer are as before.
NoOpCall ==
  /\ stack' = <<>>
  /\ log' = <<>>
  /\ UNCHANGED <<currentState, previousState, stateChanged, stateEnteredTime,
                 states, beforeHandlers, afterHandlers>>

\* C2: setState(currentState) is a complete no-op: it invokes no handler and
\* no onEnter/onExit callback and leaves currentState, previousState,
\* stateChanged, stateEnteredTimestamp and the armed/active status of every
\* timer unchanged.
C2_SameStateNoOp ==
  [][\A n \in StateArgs : (SetState(n) /\ n = currentState) => NoOpCall]_vars

\* Some timeout of the current state is counting and was armed before now.
CountingSince ==
  \E k \in 1 .. Len(states[currentState].timeouts) :
    /\ states[currentState].timeouts[k].active
    /\ states[currentState].timeouts[k].timer.active
    /\ states[currentState].timeouts[k].timer.startTime # now

\* C2 witness: setState(currentState) has returned while a timeout of the
\* current state, armed earlier, is counting.
C2_Witness ==
  /\ Idle
  /\ call.op = "setState"
  /\ call.s = currentState
  /\ call.from = currentState
  /\ CountingSince

\* C3: setState(n) with n >= numStates invokes no callback and leaves
\* currentState, previousState, stateChanged, stateEnteredTimestamp and all
\* timers unchanged.
C3_InvalidStateNoOp ==
  [][\A n \in StateArgs : (SetState(n) /\ n >= NumStates) => NoOpCall]_vars

\* C3 witness: setState with an out-of-range id has returned while a timeout
\* of the current state is counting.
C3_Witness ==
  /\ Idle
  /\ call.op = "setState"
  /\ call.s >= NumStates
  /\ CountingSince

\* C4: in both timing regimes and for every interleaving of timer expiry
\* with setState calls, a timeout callback registered on state A is invoked
\* only at a moment when currentState = A, and once the machine has left A
\* before the duration elapsed, that arming of the timer never invokes the
\* callback.
C4_TimeoutOnlyWhileCurrent ==
  \A j \in 1 .. Len(log) :
    log[j].k = "timeout" => (log[j].o = log[j].a /\ ~log[j].stale)

\* The entry the timer scan of update() is looking at in this step.
ScannedEntry == states[currentState].timeouts[Top.i + 1]

\* C5: on the polling variant, if state S has a timeout (D, cb), S is entered
\* at time t and stays current, the first update() made at a clock value
\* >= t + D invokes cb once with (S, previousState), and later update() calls
\* during the same stay do not invoke it again.  Stated for D >= 1: the scan
\* of update() invokes the callback of an active entry whose duration has
\* elapsed and clears its active flag, and invokes nothing otherwise.
C5_PollingTimeoutFires ==
  [][(/\ UpdateTimers
      /\ Top.i < Len(states[currentState].timeouts)
      /\ ScannedEntry.duration >= 1) =>
       IF ScannedEntry.active
            /\ (now - ScannedEntry.timer.startTime) % ClockModulus >= ScannedEntry.duration
       THEN /\ log' = Append(log, [k |-> "timeout", o |-> currentState,
                                   cb |-> ScannedEntry.callback, a |-> currentState,
                                   b |-> previousState, stale |-> FALSE])
            /\ ~states'[currentState].timeouts[Top.i + 1].active
       ELSE log' = log
    ]_vars

\* C6: after any successful transition, whatever context it was triggered
\* from, isStateChanged() is true until the next update() call, after which
\* it is false until the next transition: the flag rises with every state
\* swap and falls only at the end of an update() call that began after the
\* last transition.
C6_ChangedUntilNextUpdate ==
  [][/\ currentState' # currentState => stateChanged'
     /\ (stateChanged /\ ~stateChanged') => (call.op = "update" /\ nreent = 0)
     /\ (UpdateOnStates /\ stack' = <<>>) => ~stateChanged'
    ]_vars

\* C7: the onEnter callbacks registered on a state fire in insertion order,
\* each with (enteredState, previousState), on every entry to that state, a
\* callback registered k times firing k times: every step of the enter pass
\* of a setState(n) call invokes the next entry of n's list, and the pass
\* ends when that list is through.
C7_EnterPass ==
  [][(SetStateEnter /\ Top.fn = "setState" /\ Top.pc = "enter") =>
       IF log' # log
       THEN /\ Top.i < Len(states[Top.ns].onEnters)
            /\ log' = Append(log, [k |-> "enter", o |-> Top.ns,
                                   cb |-> states[Top.ns].onEnters[Top.i + 1],
                                   a |-> Top.ns, b |-> previousState,
                                   stale |-> FALSE])
       ELSE Top.i = Len(states[Top.ns].onEnters)
    ]_vars

\* C11: constructing a machine with numStates = 0 fails, so that no later
\* update(), setState or timeout dispatch reads a state record that does not
\* exist: no machine of zero states ever makes such a read.
C11_ZeroStatesNeverRead == numStates = 0 => ~fault

\* The state records a step of setState or update reads: states[currentState]
\* (lines 256, 262, 272, 278, 302, 330, 340).
RecordOfCall == {currentState}

\* The state records onTimeout(state, index) reads: the test of line 20 looks
\* at states[state] only after currentState == state has held.
RecordOfTimeout(state) == IF currentState = state THEN {state} ELSE {}

\* C12: in every reachable state of a machine constructed with numStates > 0,
\* after any sequence of setState (valid or invalid argument), update,
\* add*/remove*, timer fires and reentrant calls, currentState < numStates
\* and previousState < numStates, and every state-record access made by
\* setState, update and onTimeout uses an index < numStates.
C12_ValidIndices ==
  [][/\ currentState' < numStates'
     /\ previousState' < numStates'
     /\ (SetStateBefore \/ SetStateExit \/ SetStateEnter \/ UpdateTimers \/ UpdateOnStates)
          => \A x \in RecordOfCall : x < numStates
     /\ \A s \in States, k \in 1 .. MaxRegs :
          Fire(s, k) =>
            \A x \in RecordOfTimeout(states[s].timeouts[k].timer.st % Uint8Modulus) :
              x < numStates
    ]_vars

\* C12 witness: a setState with an out-of-range id has returned in the highest
\* state, which the machine had entered from the one below it.
C12_Witness ==
  /\ Idle
  /\ call.op = "setState"
  /\ call.s = NumStates
  /\ currentState = NumStates - 1
  /\ previousState = NumStates - 2
  /\ numStates > 0

\* C13: after a machine is destroyed, no timeout callback registered on it is
\* ever invoked and no timer fire is dispatched to it: once the object is
\* gone, no Ticker callback reads its released members.
C13_NoDispatchAfterDestroy == ~alive => ~fault


\* C14: when removeTimeout(state, d) returns true, the timer of the entry it
\* removed has been cancelled: a Ticker that was counting down for the erased
\* entry is no longer armed, so that arming never invokes the entry's
\* callback, also when state is the current state.
C14_RemovedTimerCancelled ==
  \A t \in looseTickers : t.owner = "erased" => ~t.active

\* removeTimeout has just returned true for an entry whose Ticker was
\* counting.
C14_Witness ==
  /\ Idle
  /\ call.op = "removeTimeout"
  /\ ret
  /\ IsESP
  /\ \E t \in looseTickers : t.owner = "erased" /\ ~t.active


\* The add methods called one after the other as the application would call
\* them: addOnEnter, addOnState, addOnExit for each callback that is not
\* null, then addTimeout when timeout > 0 and onTimeout is not null.
AddsInTurn(st, s, t, onEnter, onState, onExit, onTimeout) ==
  LET afterEnter == IF onEnter = NULL THEN st ELSE AddOnEnterBody(st, s, onEnter).states
      afterState == IF onState = NULL THEN afterEnter
                    ELSE AddOnStateBody(afterEnter, s, onState).states
      afterExit == IF onExit = NULL THEN afterState
                   ELSE AddOnExitBody(afterState, s, onExit).states
  IN IF t > 0 /\ onTimeout # NULL
     THEN AddTimeoutBody(afterExit, s, t, onTimeout).states
     ELSE afterExit

\* C15: configureState(state, timeout, onEnter, onState, onExit, onTimeout)
\* leaves the machine as the calls addOnEnter, addOnState, addOnExit for each
\* non-null callback followed by addTimeout (only when timeout > 0 and
\* onTimeout is not null) leave it, and registers nothing for an invalid
\* state; nothing but the lists of that state changes.
C15_ConfigureStateIsTheAdds ==
  [][\A s \in StateArgs, t \in Durations :
       \A onEnter \in StateCallbackArgs, onState \in StateFunctionArgs :
         \A onExit \in StateCallbackArgs, onTimeout \in StateCallbackArgs :
           ConfigureState(s, t, onEnter, onState, onExit, onTimeout) =>
             /\ states' = AddsInTurn(states, s, t, onEnter, onState, onExit, onTimeout)
             /\ s >= numStates => states' = states
             /\ \A x \in States : x # s => states'[x] = states[x]
             /\ UNCHANGED <<currentState, previousState, stateChanged,
                            stateEnteredTime, beforeHandlers, afterHandlers>>]_vars

\* configureState has just filled the four lists of a state.
C15_Witness ==
  /\ call.op = "configureState"
  /\ call.s < numStates
  /\ Len(states[call.s].onEnters) = 1
  /\ Len(states[call.s].onStates) = 1
  /\ Len(states[call.s].onExits) = 1
  /\ Len(states[call.s].timeouts) = 1
  /\ states[call.s].timeouts[1].duration > 0
  /\ TotalEntries = 4


\* Every timeout entry of state s is cancelled and inactive.
AllCancelled(s) ==
  \A k \in 1 .. Len(states[s].timeouts) :
    /\ ~states[s].timeouts[k].active
    /\ ~states[s].timeouts[k].timer.active

\* Every timeout entry of state s is active and its timer has its whole
\* duration ahead of it.
AllCountingInFull(s) ==
  \A k \in 1 .. Len(states[s].timeouts) :
    /\ states[s].timeouts[k].active
    /\ states[s].timeouts[k].timer.active
    /\ states[s].timeouts[k].timer.duration = states[s].timeouts[k].duration
    /\ Elapsed(states[s].timeouts[k].timer) = 0

\* C16: each successful setState from A to B without reentrant calls ends with
\* every timeout entry of A cancelled and inactive and every timeout entry of
\* B active and counting its full duration from the moment of entry, also the
\* entries of B that fired or were cancelled during an earlier stay in B.
C16_TimersAfterTransition ==
  (TransitionDone /\ nreent = 0) => (AllCancelled(call.from) /\ AllCountingInFull(call.s))


\* The setState call of this step was rejected: invalid id or same state.
Rejected(n) == SetState(n) /\ (n >= numStates \/ n = currentState)

\* C17 as stated: timeInCurrentState() is (now - stateEnteredTimestamp) modulo
\* the clock word size, is 0 at the instant of a successful transition, is not
\* reset by a rejected setState, and never decreases between transitions.
C17_Original ==
  [][/\ \A d \in ClockSteps :
          Pass(d) => /\ TimeInCurrentState' = (TimeInCurrentState + d) % ClockModulus
                     /\ TimeInCurrentState' >= TimeInCurrentState
     /\ currentState' # currentState => TimeInCurrentState' = 0
     /\ \A n \in StateArgs : Rejected(n) => TimeInCurrentState' = TimeInCurrentState
    ]_vars

\* C17, amended: timeInCurrentState() is (now - stateEnteredTimestamp) modulo
\* the clock word size, also when millis() wraps between entry and read; it
\* is 0 at the instant of a successful transition, is not reset by a rejected
\* setState, and does not decrease between transitions as long as the stay
\* is shorter than one period of the clock.
C17_Amended ==
  [][/\ \A d \in ClockSteps :
          Pass(d) => /\ TimeInCurrentState' = (TimeInCurrentState + d) % ClockModulus
                     /\ TimeInCurrentState + d < ClockModulus
                          => TimeInCurrentState' >= TimeInCurrentState
     /\ currentState' # currentState => TimeInCurrentState' = 0
     /\ \A n \in StateArgs : Rejected(n) => TimeInCurrentState' = TimeInCurrentState
    ]_vars

\* The clock has wrapped since the machine entered a state other than the
\* initial one, and a rejected setState has just returned.
C17_Witness ==
  /\ Idle
  /\ call.op = "setState"
  /\ call.s = currentState
  /\ currentState # 0
  /\ now < stateEnteredTime
  /\ TimeInCurrentState = HalfPeriod + 1


\* C18: each update() call invokes every onState callback of the current
\* state, in registration order, each with (currentState), and no onState
\* callback of any other state, and ends with stateChanged = false: every step
\* of the onState pass of an update() called in state c invokes the next
\* entry of c's list, and the pass ends, clearing the flag, when that list is
\* through.  The steps of update() themselves leave currentState and
\* previousState alone.
C18_OnStatePass ==
  [][/\ UpdateOnStates =>
          IF log' # log
          THEN /\ Top.i < Len(states[call.from].onStates)
               /\ log' = Append(log, [k |-> "state", o |-> call.from,
                                      cb |-> states[call.from].onStates[Top.i + 1],
                                      a |-> call.from, b |-> call.from,
                                      stale |-> FALSE])
          ELSE /\ Top.i = Len(states[call.from].onStates)
               /\ ~stateChanged'
     /\ (Update \/ UpdateTimers \/ UpdateOnStates)
          => UNCHANGED <<currentState, previousState>>
    ]_vars


\* C19: no timeout entry with duration 0 is ever stored or armed: after any
\* sequence of configureState and addTimeout calls, every timeout entry of
\* every state has duration > 0.
C19_NoZeroDuration ==
  \A s \in DOMAIN states : \A k \in 1 .. Len(states[s].timeouts) :
    states[s].timeouts[k].duration > 0


\* This step is a call of an add or remove method of the state lists.
AddOrRemoveCall ==
  \/ \E s \in StateArgs, cb \in CbArgs :
       \/ AddOnEnter(s, cb)
       \/ AddOnState(s, cb)
       \/ AddOnExit(s, cb)
       \/ RemoveOnEnter(s, cb)
       \/ RemoveOnState(s, cb)
       \/ RemoveOnExit(s, cb)
       \/ \E d \in Durations : AddTimeout(s, d, cb)
  \/ \E s \in StateArgs, d \in Durations : RemoveTimeout(s, d)

\* The complete machine state is as before the step: all callback lists, all
\* timeout entries with their timers, and the four state members.
MachineUntouched ==
  UNCHANGED <<states, beforeHandlers, afterHandlers, currentState, previousState,
              stateChanged, stateEnteredTime>>

\* C20: every add*, remove* or setState call that fails (returns false, or is
\* rejected as invalid or as a same-state no-op) leaves the complete machine
\* state exactly as before the call: all callback lists, all timeout entries
\* and their armed status, currentState, previousState, stateChanged and
\* stateEnteredTimestamp.
C20_FailedCallChangesNothing ==
  [][/\ (AddOrRemoveCall /\ ~ret') => MachineUntouched
     /\ \A n \in StateArgs : Rejected(n) => (MachineUntouched /\ stack' = <<>>)
    ]_vars

\* removeTimeout has just returned false for the current state while one of
\* that state's timers is counting.
C20_Witness ==
  /\ Idle
  /\ call.op = "removeTimeout"
  /\ ~ret
  /\ currentState = NumStates - 1
  /\ \E k \in 1 .. Len(states[currentState].timeouts) :
       /\ states[currentState].timeouts[k].active
       /\ states[currentState].timeouts[k].timer.active


\* The number of "before" invocations the log begins with.
LeadingBefores ==
  CHOOSE m \in 0 .. Len(log) :
    /\ \A i \in 1 .. m : log[i].k = "before"
    /\ m = Len(log) \/ log[m + 1].k # "before"

\* The one reentrant setState of the last top-level call was made by a
\* before-change handler of that call: the log begins with more "before"
\* invocations than there are handlers.
ReentryFromBefore ==
  /\ nreent = 1
  /\ Len(beforeHandlers) > 0
  /\ LeadingBefores > Len(beforeHandlers)

\* The handlers j1 .. j2 of the before list, invoked with (a, b).
BeforesFrom(j1, j2, a, b) ==
  [j \in 1 .. (j2 - j1 + 1) |->
     [k |-> "before", o |-> -1, cb |-> beforeHandlers[j1 + j - 1], a |-> a, b |-> b,
      stale |-> FALSE]]

\* What setState(b), called in state a, invokes when its before-change handler
\* j calls setState(c): the handlers up to j, the whole transition from a to
\* c, then the rest of the outer call, made from state c.
NestedInBefore(a, b, c, j) ==
  BeforesFrom(1, j, a, b)
    \o ExpectedSequence(a, c)
    \o SubSeq(ExpectedSequence(c, b), j + 1, Len(ExpectedSequence(c, b)))

\* Every timeout of state s was armed when the machine last changed state.
ArmedAtEntry(s) ==
  \A k \in 1 .. Len(states[s].timeouts) :
    /\ states[s].timeouts[k].timer.st = s
    /\ states[s].timeouts[k].timer.startTime = stateEnteredTime
    /\ states[s].timeouts[k].timer.duration = states[s].timeouts[k].duration
    /\ ~states[s].timeouts[k].timer.left

\* C21: when a before-change handler, during setState(B) from state A, calls
\* setState(C) once (C valid, C # A), the nested call runs the whole transition
\* from A to C (before-handlers, exit pass of A, swap, enter pass of C, arming,
\* after-handlers) before the outer call goes on; the outer call then runs
\* all its remaining steps against the then-current state C and returns with
\* currentState = B, previousState = C and the timeouts of B armed.
C21_NestedFromBefore ==
  (TransitionDone /\ ReentryFromBefore) =>
     /\ currentState = call.s
     /\ previousState # call.from
     /\ \E j \in 1 .. Len(beforeHandlers) :
          HandlerLog = NestedInBefore(call.from, call.s, previousState, j)
     /\ ArmedAtEntry(call.s)

\* The first of two before-change handlers called setState(C) with C # B
\* during setState(B), and the outer call has returned.
C21_Witness ==
  /\ TransitionDone
  /\ ReentryFromBefore
  /\ Len(beforeHandlers) = 2
  /\ previousState # call.s
  /\ HandlerLog = NestedInBefore(call.from, call.s, previousState, 1)


\* What the claim lets a call onTimeout(s, k) do, made while the lists are st
\* and the log is l: run the callback of entry k of the current state with
\* (currentState, previousState), that entry marked inactive, when s is the
\* current state and k is within its list; nothing otherwise.
OnTimeoutAsClaimed(st, l, s, k, stale) ==
  IF s = currentState /\ k < Len(st[s].timeouts)
  THEN /\ states' = [st EXCEPT ![s].timeouts[k + 1].active = FALSE]
       /\ log' = Append(l, [k |-> "timeout", o |-> s,
                            cb |-> st[s].timeouts[k + 1].callback,
                            a |-> currentState, b |-> previousState,
                            stale |-> stale])
  ELSE /\ states' = st
       /\ log' = l

\* C22: onTimeout(state, index) invokes a callback only if state =
\* currentState and index < length of that state's timeout list; then it
\* marks that entry inactive and invokes its callback with (currentState,
\* previousState); otherwise it invokes nothing and changes nothing; and it
\* never reads a state record outside [0, numStates) or a timeout entry past
\* the end of the list.
C22_OnTimeoutGuarded ==
  [][/\ \A s \in StateArgs, k \in 0 .. MaxRegs :
          CallOnTimeout(s, k) =>
            /\ \A x \in RecordOfTimeout(s) : x < numStates
            /\ OnTimeoutAsClaimed(states, <<>>, s, k, FALSE)
     /\ \A s \in DOMAIN states : \A k \in 1 .. Len(states[s].timeouts) :
          Fire(s, k) =>
            LET t == states[s].timeouts[k].timer IN
              /\ \A x \in RecordOfTimeout(t.st) : x < numStates
              /\ OnTimeoutAsClaimed([states EXCEPT ![s].timeouts[k].timer.active = FALSE],
                                    LogSoFar, t.st, t.idx, t.left)
    ]_vars


\* The onEnter invocations in the log.
EnterLog == SelectSeq(log, LAMBDA e : e.k = "enter")

\* C23: after construction, seeding the initial state with setState(s) makes
\* s the current state with its onEnter callbacks invoked once and all of its
\* timeouts armed, for every valid s, s = 0 included, so that a timeout
\* registered on the initial state fires when that state stays current for
\* its full duration.
C23_SeedEntersState ==
  (Idle /\ call.op = "setState" /\ call.s < numStates /\ nreent = 0) =>
     /\ currentState = call.s
     /\ EnterLog = [j \in 1 .. Len(states[call.s].onEnters) |->
                      [k |-> "enter", o |-> call.s, cb |-> states[call.s].onEnters[j],
                       a |-> call.s, b |-> call.from, stale |-> FALSE]]
     /\ ArmedAtEntry(call.s)


\* C24: on the Ticker build with two machines M1 and then M2 constructed,
\* every timer fire goes through the one static instance pointer, which each
\* construction overwrites: a Ticker armed by M1 is dispatched to M2's
\* onTimeout, so M1's timeout callbacks are never invoked by M1's timers, and
\* M2's callback is invoked when M2's current state and timeout index happen
\* to match.  (This machine is M2 while the pointer names it and M1 once the
\* other machine has been constructed.)
C24_DispatchToLastConstructed ==
  [][/\ \A t \in looseTickers :
          (FireLoose(t) /\ t.owner = "other" /\ instance = "this") =>
             OnTimeoutAsClaimed(states, LogSoFar, t.st, t.idx, TRUE)
     /\ \A s \in States : \A k \in 1 .. Len(states[s].timeouts) :
          (Fire(s, k) /\ instance = "other") =>
             /\ log' = LogSoFar
             /\ states' = [states EXCEPT ![s].timeouts[k].timer.active = FALSE]
    ]_vars

\* A Ticker of the other machine has just run a timeout callback of this
\* one, between two calls.
C24_Witness ==
  /\ Idle
  /\ call.op = "fire"
  /\ instance = "this"
  /\ Len(log) = 1
  /\ log[1].k = "timeout"
  /\ log[1].stale
  /\ \A s \in States : \A k \in 1 .. Len(states[s].timeouts) :
       states[s].timeouts[k].timer = NewTimer


\* C25: no onEnter or onExit callback and no before/after handler is ever
\* invoked with both arguments equal, and previousState # currentState after
\* every successful transition, also when callbacks call setState.
C25_NoSelfTransition ==
  /\ \A j \in 1 .. Len(HandlerLog) : HandlerLog[j].a # HandlerLog[j].b
  /\ TransitionDone => previousState # currentState


\* C26: whenever no setState call is in progress, every timeout entry whose
\* active flag is true (timer counting down) belongs to the current state: no
\* timer of another state is left armed, also after transitions made from
\* onExit, onEnter or global-handler callbacks.
C26_OnlyCurrentStateArmed ==
  (\A f \in 1 .. Len(stack) : stack[f].fn # "setState") =>
     \A s \in States : \A k \in 1 .. Len(states[s].timeouts) :
       s # currentState =>
         /\ ~states[s].timeouts[k].active
         /\ ~states[s].timeouts[k].timer.active


\* The callbacks of a sequence of invocations.
CbsOf(seq) == [j \in 1 .. Len(seq) |-> seq[j].cb]
\* The onExit invocations logged for a departure from s to n, the onEnter
\* invocations logged for an arrival in s from p, and for any arrival in s.
ExitsRun(s, n) == SelectSeq(log, LAMBDA e : e.k = "exit" /\ e.o = s /\ e.b = n)
EntersRun(s, p) == SelectSeq(log, LAMBDA e : e.k = "enter" /\ e.o = s /\ e.b = p)
EntersRunIn(s) == SelectSeq(log, LAMBDA e : e.k = "enter" /\ e.o = s)

\* C27: in every execution, reentrant setState calls from callbacks and timer
\* callbacks included, each departure from S runs S's onExit list exactly once
\* and in full, and each arrival in S runs S's onEnter list exactly once and
\* in full; no entry is invoked twice for one transition, skipped, or
\* replaced by entries of another state's list.  When a call swaps states, the
\* onExit invocations made for that departure are the list of the state it
\* leaves; when a call ends its enter pass, the onEnter invocations made for
\* the arrival in the current state are that state's list, and so are those
\* made for the state the call had entered, should it no longer be current.
C27_ExitEnterOncePerTransition ==
  [][/\ (SetStateExit /\ Top.i >= Len(states[currentState].onExits)) =>
          CbsOf(ExitsRun(currentState, Top.ns)) = states[currentState].onExits
     /\ (SetStateEnter /\ Top.i >= Len(states[currentState].onEnters)) =>
          /\ CbsOf(EntersRun(currentState, previousState))
               = states[currentState].onEnters
          /\ currentState # Top.ns =>
               CbsOf(EntersRunIn(Top.ns)) = states[Top.ns].onEnters
    ]_vars


\* ---------------------------------------------------------------------------
\* C28: every call of setState returns, when each callback calls setState at
\* most once in each of its invocations: a call that has started is followed
\* by the machine being between two calls again.
C28_CallsReturn == (~Idle) ~> Idle


\* ---------------------------------------------------------------------------
\* C29: after removeTimeout has removed an entry of the current state, each
\* entry that remains armed invokes its own callback when its Ticker expires:
\* whenever the Ticker of an armed entry of the current state expires between
\* two calls, its duration has elapsed since the state was entered and the
\* callback invoked is the one of that entry.
ExpiresArmed(k) ==
  /\ Idle
  /\ k \in 1 .. Len(states[currentState].timeouts)
  /\ states[currentState].timeouts[k].active
  /\ states[currentState].timeouts[k].timer.st = currentState
  /\ Fire(currentState, k)

C29_RemainingEntriesFire ==
  [][\A k \in 1 .. MaxRegs :
       ExpiresArmed(k) =>
         /\ TimeInCurrentState >= states[currentState].timeouts[k].duration
         /\ Len(log') > 0
         /\ log'[1].k = "timeout"
         /\ log'[1].cb = states[currentState].timeouts[k].callback]_vars


\* ---------------------------------------------------------------------------
\* C30: the onState callbacks invoked by one update() call are the complete
\* onState list of one state, each entry once, in order, each with that state
\* as its argument.
IsOnState(e) == e.k = "state"

OnStateLog == SelectSeq(log, IsOnState)

OnStatePassOf(s) ==
  [j \in 1 .. Len(states[s].onStates) |->
     Invocation("state", s, states[s].onStates[j], s, s, FALSE)]

C30_OnStatesOfOneState ==
  (Idle /\ call.op = "update") => \E s \in States : OnStateLog = OnStatePassOf(s)


\* ---------------------------------------------------------------------------
\* C31: the (fromState, toState) pairs delivered to an after-change handler
\* mirror the changes of currentState: over one top-level setState call the
\* pairs delivered to the only registered after-change handler form a chain
\* of real changes that starts at the state the call was made in and ends at
\* currentState.
IsAfter(e) == e.k = "after"

AfterLog == SelectSeq(log, IsAfter)

IsChain(pairs, from, to) ==
  /\ \A j \in 1 .. Len(pairs) : pairs[j].a # pairs[j].b
  /\ \A j \in 1 .. Len(pairs) :
       pairs[j].a = IF j = 1 THEN from ELSE pairs[j - 1].b
  /\ to = IF Len(pairs) = 0 THEN from ELSE pairs[Len(pairs)].b

C31_AfterPairsMirrorChanges ==
  (Idle /\ call.op = "setState" /\ Len(afterHandlers) = 1)
    => IsChain(AfterLog, call.from, currentState)


\* ---------------------------------------------------------------------------
\* C33: the global handler lists.
\* c2 is c without its first entry equal to h, the rest in order.
FirstMatchRemoved(c, c2, h) ==
  \E k \in 1 .. Len(c) :
    /\ c[k] = h
    /\ \A j \in 1 .. (k - 1) : c[j] # h
    /\ c2 = SubSeq(c, 1, k - 1) \o SubSeq(c, k + 1, Len(c))

\* What C33 says of one remove call on the list c, c2 the list afterwards.
HandlerRemovePost(c, c2, h) ==
  IF \E k \in 1 .. Len(c) : c[k] = h
  THEN ret' = TRUE /\ FirstMatchRemoved(c, c2, h)
  ELSE ret' = FALSE /\ c2 = c

\* What C33 says of one add call as stated, and with the capacity of the
\* SimpleArray taken into account.
HandlerAddPostOriginal(c, c2, h) ==
  c2 = IF h = NULL THEN c ELSE Append(c, h)

HandlerAddPostAmended(c, c2, h) ==
  c2 = IF h = NULL \/ ~HasRoom(c) THEN c ELSE Append(c, h)

\* The handlers a transition without reentrant calls has invoked are the
\* registrations of each list, once each, in order.
BeforeCbs == CbsOf(SelectSeq(log, LAMBDA e : e.k = "before"))
AfterCbs == CbsOf(SelectSeq(log, LAMBDA e : e.k = "after"))

RegistrationsFire ==
  (Idle /\ call.op = "setState" /\ call.s # call.from /\ nreent = 0)
    => BeforeCbs = beforeHandlers /\ AfterCbs = afterHandlers

HandlerRemovesAndFiring ==
  /\ \A h \in CbArgs :
       /\ RemoveBeforeStateChangeHandler(h)
            => /\ HandlerRemovePost(beforeHandlers, beforeHandlers', h)
               /\ UNCHANGED <<afterHandlers, states>>
       /\ RemoveAfterStateChangeHandler(h)
            => /\ HandlerRemovePost(afterHandlers, afterHandlers', h)
               /\ UNCHANGED <<beforeHandlers, states>>
  /\ RegistrationsFire'

\* C33 as stated: addBeforeStateChangeHandler/addAfterStateChangeHandler(h)
\* append h (a null h is ignored, duplicates are kept and fire once per
\* registration); the remove methods remove only the first registration of
\* h, keep the order of the rest and return true, or return false and change
\* nothing; a removed registration is not invoked on later transitions.
C33_Original ==
  [][/\ \A h \in CbArgs :
          /\ AddBeforeStateChangeHandler(h)
               => HandlerAddPostOriginal(beforeHandlers, beforeHandlers', h)
          /\ AddAfterStateChangeHandler(h)
               => HandlerAddPostOriginal(afterHandlers, afterHandlers', h)
     /\ HandlerRemovesAndFiring
    ]_vars

\* C33 amended: addBeforeStateChangeHandler/addAfterStateChangeHandler(h)
\* append h when h is not null and the list has room (always on the vector
\* builds, below MAX_SIZE entries on the SimpleArray build), and otherwise
\* leave the list as it is; duplicates are kept and fire once per
\* registration; the remove methods remove only the first registration of
\* h, keep the order of the rest and return true, or return false and change
\* nothing; a removed registration is not invoked on later transitions.
C33_Amended ==
  [][/\ \A h \in CbArgs :
          /\ AddBeforeStateChangeHandler(h)
               => HandlerAddPostAmended(beforeHandlers, beforeHandlers', h)
          /\ AddAfterStateChangeHandler(h)
               => HandlerAddPostAmended(afterHandlers, afterHandlers', h)
     /\ HandlerRemovesAndFiring
    ]_vars

\* C33 witness: removeBeforeStateChangeHandler has returned true and left a
\* later registration of the removed handler behind another handler.
C33_Witness ==
  /\ call.op = "removeBefore"
  /\ ret = TRUE
  /\ beforeHandlers = <<2, 1>>


\* ---------------------------------------------------------------------------
\* C32: the operations of the registry.
RegistryOps ==
  {"addOnEnter", "addOnState", "addOnExit", "addTimeout", "removeOnEnter",
   "removeOnState", "removeOnExit", "removeTimeout", "configureState",
   "addBefore", "addAfter", "removeBefore", "removeAfter"}

ListNames == {"timeouts", "onEnters", "onStates", "onExits"}

\* The list an add or remove method works on.
TargetList(op) ==
  CASE op \in {"addOnEnter", "removeOnEnter"} -> "onEnters"
    [] op \in {"addOnState", "removeOnState"} -> "onStates"
    [] op \in {"addOnExit", "removeOnExit"} -> "onExits"
    [] op \in {"addTimeout", "removeTimeout"} -> "timeouts"
    [] op \in {"addBefore", "removeBefore"} -> "before"
    [] op \in {"addAfter", "removeAfter"} -> "after"
    [] OTHER -> "none"

\* The lists a step has changed: <<state, list>>, -1 for the global lists.
ChangedLists ==
  {x \in States \X ListNames : states'[x[1]][x[2]] # states[x[1]][x[2]]}
    \cup (IF beforeHandlers' # beforeHandlers THEN {<<-1, "before">>} ELSE {})
    \cup (IF afterHandlers' # afterHandlers THEN {<<-1, "after">>} ELSE {})

\* The step is a call of a registry operation: every other call made between
\* two calls records another operation.
RegistryStep == Idle /\ call'.op \in RegistryOps

MachineAndCallbacksUntouched ==
  /\ UNCHANGED <<currentState, previousState, stateChanged, stateEnteredTime>>
  /\ log' = <<>>
  /\ stack' = <<>>

OneTargetListAtMost ==
  /\ Cardinality(ChangedLists) <= 1
  /\ \A x \in ChangedLists : x[2] = TargetList(call'.op)

\* C32 as stated: the registry operations never change currentState,
\* previousState, stateChanged or the entry timestamp, never invoke a
\* callback, and change only the one list they target.
C32_Original ==
  [][RegistryStep => MachineAndCallbacksUntouched /\ OneTargetListAtMost]_vars

\* C32 amended: the registry operations never change currentState,
\* previousState, stateChanged or the entry timestamp and never invoke a
\* callback; each add and remove method changes at most the one list it
\* targets, and configureState changes at most the four lists of the state it
\* names: the lists of other states and the global handler lists stay
\* unchanged.
C32_Amended ==
  [][RegistryStep =>
       /\ MachineAndCallbacksUntouched
       /\ IF call'.op = "configureState"
          THEN \A x \in ChangedLists : x[1] = call'.s
          ELSE OneTargetListAtMost]_vars

\* C32 witness: addOnExit has appended to the onExit list of a state that is
\* not the current one, while another list holds an entry.
C32_Witness ==
  /\ call.op = "addOnExit"
  /\ ret = TRUE
  /\ currentState = NumStates - 1
  /\ Len(states[0].onExits) = 1
  /\ TotalEntries = MaxRegs


\* ---------------------------------------------------------------------------
\* C34: the polling timer.  detach() leaves the timer inactive whatever it
\* was, and changes nothing of a timer that is inactive already; while the
\* timer is inactive update() reports no expiry and the timer stays inactive
\* until once_ms() arms it; once_ms() makes it active, and an active timer
\* stays active until detach() is called or update() finds its duration
\* elapsed.
IsActive(t) == t.active

TimerCalled(op) == Idle /\ HasTimer /\ call'.op = op

TimerStep == Idle /\ HasTimer /\ call'.op \in {"once_ms", "detach", "timerUpdate", "pass"}

C34_CancelAndArm ==
  [][/\ TimerCalled("detach")
          => /\ ~IsActive(Timer')
             /\ ~IsActive(Timer) => Timer' = Timer
     /\ TimerCalled("once_ms") => IsActive(Timer')
     /\ (TimerCalled("timerUpdate") /\ ~IsActive(Timer))
          => ret' = FALSE /\ Timer' = Timer
     /\ (TimerStep /\ ~IsActive(Timer) /\ IsActive(Timer'))
          => TimerCalled("once_ms")
     /\ (TimerStep /\ IsActive(Timer) /\ ~IsActive(Timer'))
          => \/ TimerCalled("detach")
             \/ TimerCalled("timerUpdate") /\ Elapsed(Timer) >= Timer.duration
    ]_vars

\* C34 witness: update() has just returned false on an inactive timer that
\* holds a callback and whose duration has elapsed.
C34_Witness ==
  /\ HasTimer
  /\ call.op = "timerUpdate"
  /\ ret = FALSE
  /\ ~IsActive(Timer)
  /\ Timer.hasCb
  /\ Timer.duration > 0
  /\ Elapsed(Timer) >= Timer.duration


\* ---------------------------------------------------------------------------
\* C35: a polling timer armed with duration D reports its expiry at the first
\* update() call made when (now - startTime) mod 2^w >= D, not before, and
\* once per arming: an update() call on an active timer returns true exactly
\* when the duration has elapsed, and the timer is inactive afterwards.
C35_ExpiryReported ==
  [][(TimerCalled("timerUpdate") /\ IsActive(Timer))
       => /\ ret' = (Elapsed(Timer) >= Timer.duration)
          /\ ret' => ~IsActive(Timer')
          /\ ~ret' => Timer' = Timer]_vars


\* ---------------------------------------------------------------------------
\* C36: in the StateRecovery sketch each completed transition appends one
\* record timestamp,fromState,toState to the log; recovery returns the
\* toState of the record appended last, and reports that nothing was
\* recovered when the log is missing or empty.
SavesRecord ==
  ~Idle /\ Top.fn = "setState" /\ Top.pc = "after" /\ Top.i < Len(afterHandlers)

TransitionCompleted == Idle /\ call.op = "setState" /\ call.s # call.from

C37_FlagMatchesTimer ==
  (~IsESP /\ Idle)
    => \A s \in States : \A k \in 1 .. Len(states[s].timeouts) :
         states[s].timeouts[k].duration >= 1
           => states[s].timeouts[k].active = IsActive(states[s].timeouts[k].timer)


\* ---------------------------------------------------------------------------
\* C38: the index handed from the arming code to onTimeoutStatic and
\* onTimeout equals the entry's position in the list, whatever the length of
\* the list: when the Ticker of the armed entry at position k of the current
\* state expires between two calls, the callback invoked is the one of entry
\* k and entry k is the one marked inactive.
ExpiresAt(k) ==
  /\ Idle
  /\ k \in 1 .. Len(states[currentState].timeouts)
  /\ states[currentState].timeouts[k].active
  /\ states[currentState].timeouts[k].timer.st = currentState
  /\ ~states[currentState].timeouts[k].timer.left
  /\ Fire(currentState, k)

C38_IndexNotTruncated ==
  [][\A k \in 1 .. WideLen :
       ExpiresAt(k) =>
         /\ states[currentState].timeouts[k].timer.idx % Uint8Modulus = k - 1
         /\ Len(log') > 0
         /\ log'[1].cb = states[currentState].timeouts[k].callback
         /\ ~states'[currentState].timeouts[k].active]_vars

=============================================================================
